---------------------------- MODULE Spec2Model ----------------------------
(***************************************************************************)
(* A model of the three GitHub command-line tools of Source/:              *)
(*   forks.py      lists the user's forks and deletes a selection of them  *)
(*   stars-git.py  lists the starred repositories and removes stars        *)
(*   repos.py      lists the repositories and changes their visibility     *)
(* Six parts of the tools are modelled, each with a specification of its   *)
(* own: the selection step (SpecSelect), the batch mutators (SpecBatch),   *)
(* the paginated fetches (SpecFetch, and SpecFetchFair for termination),   *)
(* the filters of the starred list (SpecFilter), the run of a tool from    *)
(* its credentials on (SpecSession) and the menus of deletion (SpecMenu).  *)
(***************************************************************************)
EXTENDS Integers, Sequences, FiniteSets, TLC

(***************************************************************************)
(* Bounds of the model.                                                    *)
(***************************************************************************)
\* longest selection text typed at a prompt, in characters
MaxLen == 5
\* longest displayed list a selection indexes into
MaxIndex == 3
\* longest list handed to a batch mutator
MaxItems == 3
\* most full pages the upstream serves before its last page
MaxFullPages == 2
\* most records on the upstream's last, short page
MaxTail == 2
\* most times one check_rate_limit call sleeps and checks again
MaxRechecks == 2
\* the topics lookup that fails on a page is one of its first MaxBadLookup
MaxBadLookup == 2

(***************************************************************************)
(* Constants of the program.                                               *)
(***************************************************************************)
\* 'per_page': 100
PerPage == 100

VARIABLES
  \* ---- selection step ----
  spc,            \* "prompt" before the selection is typed, "selected" after the step
  stool,          \* the tool whose selection step ran: "forks", "stars", "repos"
  selection,      \* the text typed at the prompt, a sequence of characters
  max_index,      \* len() of the displayed list
  result,         \* the raw index list built from the tokens (result / selected_indices)
  valid_indices,  \* the list the parser hands back (the in-range indices acted on, in repos.py)
  warned,         \* how many out-of-range indices the user was told about
  raised,         \* the parser itself raised ValueError
  escaped,        \* an exception left the selection step
  toMutate,       \* the indices whose repositories were handed to the mutator, in order
  \* ---- batch mutators ----
  bpc,            \* "loop" while the batch runs, "done" once the summary is printed
  btool,          \* "delete_repos", "remove_stars", "batch_change_visibility", "process_selection"
  repos,          \* the list handed to the mutator (process_selection: the displayed list)
  selected_indices, \* process_selection: the index list it walks
  done_items,     \* how many entries of the list the loop has gone through
  success_count,  \* success_count / successful
  error_count,    \* error_count / failed
  requests,       \* the mutation requests sent, in order: [repo, outcome]
  sleeps,         \* how many pacing sleeps were taken
  notices,        \* process_selection: out-of-range notices printed
  make_private,   \* repos.py: the make_private argument of the mutator
  is_private,     \* the upstream: whether the repository of each record is private now
  \* ---- paginated fetches ----
  fpc,            \* "start", "rate", "request", "returned", "exited"
  ftool,          \* "forks", "stars", "repos"
  nFull,          \* the upstream: how many full pages it serves
  tail,           \* the upstream: its last page, shorter than a full one
  page,           \* the page the loop asks for next
  acc,            \* forks / starred_repos / total_repos
  pageRequests,   \* the page numbers requested, in order
  failedReq,      \* a page request failed
  rechecks,       \* sleeps of the check_rate_limit call in progress
  ret,            \* the list the fetch returned (forks.py, stars-git.py)
  fetchOk,        \* repos.py: the value fetch_repositories returned
  repositories,   \* repos.py: self.repositories
  now,            \* stars-git.py: the clock, int(time.time())
  reads,          \* the quota requests of the latest check_rate_limit call, in order
  waits,          \* the sleeps of the latest check_rate_limit call, in order
  rate_ret,       \* what the latest check_rate_limit call returned
  events,         \* the calls of check_rate_limit and the page requests, in order
  language_filter,  \* stars-git.py: the language filter of the fetch, or None
  topic_filter,     \* stars-git.py: the topic filter of the fetch, or None
  lookupFailed,   \* the ids of the records whose topics lookup failed
  \* ---- filter_starred_repos (stars-git.py) ----
  flpc,           \* "called", "returned", "raised"
  starred,        \* the list filter_starred_repos is given
  fchoice,        \* the text typed at the menu of filters
  flanguage,      \* the text typed for the language
  ftyped,         \* the text typed for the minimum of stars or for the date
  filtered,       \* the list filter_starred_repos returned
  \* ---- the run of a tool ----
  apc,            \* "start", "work", "menu", "exited"
  atool,          \* "forks", "stars", "repos"
  stored,         \* the credentials file: username and token, or None and None
  username,       \* username / self.username
  token,          \* token / self.token
  headers,        \* the token of the Authorization header of headers / self.headers
  exit_status,    \* the status the process exited with, Running before that
  trace,          \* the prompts for credentials and the requests of the run, in order
  turns,          \* repos.py: the turns of the main menu so far
  \* ---- the menus of deletion (forks.py, stars-git.py) ----
  mpc,            \* "start", "mutating", "update", "done"
  mtool,          \* "forks", "stars"
  mlist,          \* forks of delete_forks / repos of interactive_menu
  mchoice,        \* the text typed for the choice / the subchoice
  mselection,     \* the selection text typed, None when there was no such prompt
  mconfirm,       \* the confirmation typed, None when there was no such prompt
  mselected,      \* the list handed to the mutator
  minterrupt,     \* the prompt that was ended by Ctrl-C, None when none was
  mupdated        \* stars-git.py: the main list was updated

selVars == <<spc, stool, selection, max_index, result, valid_indices, warned,
             raised, escaped, toMutate>>

batchVars == <<bpc, btool, repos, selected_indices, done_items, success_count,
               error_count, requests, sleeps, notices, make_private, is_private>>

fetchVars == <<fpc, ftool, nFull, tail, page, acc, pageRequests, failedReq,
               rechecks, ret, fetchOk, repositories, now, reads, waits, rate_ret,
               events, language_filter, topic_filter, lookupFailed>>

filterVars == <<flpc, starred, fchoice, flanguage, ftyped, filtered>>

sessionVars == <<apc, atool, stored, username, token, headers, exit_status,
                 trace, turns>>

menuVars == <<mpc, mtool, mlist, mchoice, mselection, mconfirm, mselected,
              minterrupt, mupdated>>

vars == <<spc, stool, selection, max_index, result, valid_indices, warned,
          raised, escaped, toMutate,
          bpc, btool, repos, selected_indices, done_items, success_count,
          error_count, requests, sleeps, notices, make_private, is_private,
          fpc, ftool, nFull, tail, page, acc, pageRequests, failedReq,
          rechecks, ret, fetchOk, repositories, now, reads, waits, rate_ret,
          events, language_filter, topic_filter, lookupFailed,
          flpc, starred, fchoice, flanguage, ftyped, filtered,
          apc, atool, stored, username, token, headers, exit_status, trace,
          turns,
          mpc, mtool, mlist, mchoice, mselection, mconfirm, mselected,
          minterrupt, mupdated>>

(***************************************************************************)
(* Sequences.                                                              *)
(***************************************************************************)
Range(s) == {s[i] : i \in DOMAIN s}

\* range(a, b) of Python: a, a+1, .., b-1
PyRange(a, b) == IF b > a THEN [i \in 1..(b - a) |-> a + i - 1] ELSE <<>>

Min(S) == CHOOSE x \in S : \A y \in S : x <= y

\* sorted(set(s)) of Python, for a list of integers
RECURSIVE SortedOfSet(_)
SortedOfSet(S) ==
  IF S = {} THEN <<>>
  ELSE LET m == Min(S) IN <<m>> \o SortedOfSet(S \ {m})

sorted_set(s) == SortedOfSet(Range(s))

(***************************************************************************)
(* Text: a string is a sequence of one-character strings.                  *)
(***************************************************************************)
Digits == {"0", "1", "2", "3", "4", "5", "6", "7", "8", "9"}

\* the characters selection texts are drawn from
Chars == {"0", "1", "3", "-", "a", " "}

Texts == UNION {[1..n -> Chars] : n \in 0..MaxLen}

DigitVal(c) ==
  CASE c = "0" -> 0 [] c = "1" -> 1 [] c = "2" -> 2 [] c = "3" -> 3
    [] c = "4" -> 4 [] c = "5" -> 5 [] c = "6" -> 6 [] c = "7" -> 7
    [] c = "8" -> 8 [] c = "9" -> 9

IsSpace(c) == c = " "

\* str.split(): the maximal runs of non-whitespace characters
RECURSIVE SplitFrom(_, _, _)
SplitFrom(s, i, cur) ==
  IF i > Len(s)
  THEN IF cur = <<>> THEN <<>> ELSE <<cur>>
  ELSE IF IsSpace(s[i])
       THEN IF cur = <<>> THEN SplitFrom(s, i + 1, <<>>)
            ELSE <<cur>> \o SplitFrom(s, i + 1, <<>>)
       ELSE SplitFrom(s, i + 1, Append(cur, s[i]))

split(s) == SplitFrom(s, 1, <<>>)

\* str.split('-'): the pieces between the dashes, empty pieces included
RECURSIVE SplitDashFrom(_, _, _)
SplitDashFrom(s, i, cur) ==
  IF i > Len(s) THEN <<cur>>
  ELSE IF s[i] = "-" THEN <<cur>> \o SplitDashFrom(s, i + 1, <<>>)
       ELSE SplitDashFrom(s, i + 1, Append(cur, s[i]))

split_dash(s) == SplitDashFrom(s, 1, <<>>)

\* str.strip() is empty: the text holds whitespace only
strip_is_empty(s) == \A i \in DOMAIN s : IsSpace(s[i])

\* int(s) succeeds: here a piece holds no sign and no whitespace, so it must be
\* a non-empty run of digits
int_ok(s) == Len(s) > 0 /\ \A i \in DOMAIN s : s[i] \in Digits

RECURSIVE int(_)
int(s) == IF s = <<>> THEN 0 ELSE 10 * int(SubSeq(s, 1, Len(s) - 1)) + DigitVal(s[Len(s)])


(***************************************************************************)
(* The selection parsers.  Each token handler gives [err, vals]: err when  *)
(* the token makes int() or the unpacking of start, end raise ValueError,  *)
(* vals the indices the token stands for.                                  *)
(***************************************************************************)
TokenError == [err |-> TRUE, vals |-> <<>>]

\* map(int, part.split('-')) unpacked into start, end: exactly two pieces, both integers
range_ok(part) ==
  LET pieces == split_dash(part)
  IN  Len(pieces) = 2 /\ int_ok(pieces[1]) /\ int_ok(pieces[2])

\* forks.py: a range is put in order before it is expanded
forks_part(part) ==
  IF "-" \in Range(part)
  THEN IF range_ok(part)
       THEN LET start == int(split_dash(part)[1])
                end   == int(split_dash(part)[2])
                lo    == IF start > end THEN end ELSE start
                hi    == IF start > end THEN start ELSE end
            IN  [err |-> FALSE, vals |-> PyRange(lo, hi + 1)]
       ELSE TokenError
  ELSE IF int_ok(part) THEN [err |-> FALSE, vals |-> <<int(part)>>] ELSE TokenError

\* stars-git.py: range(start, end + 1) as typed
stars_part(part) ==
  IF "-" \in Range(part)
  THEN IF range_ok(part)
       THEN LET start == int(split_dash(part)[1])
                end   == int(split_dash(part)[2])
            IN  [err |-> FALSE, vals |-> PyRange(start, end + 1)]
       ELSE TokenError
  ELSE IF int_ok(part) THEN [err |-> FALSE, vals |-> <<int(part)>>] ELSE TokenError

\* repos.py: range(start, end + 1) as typed
repos_part(part) ==
  IF "-" \in Range(part)
  THEN IF range_ok(part)
       THEN LET start == int(split_dash(part)[1])
                end   == int(split_dash(part)[2])
            IN  [err |-> FALSE, vals |-> PyRange(start, end + 1)]
       ELSE TokenError
  ELSE IF int_ok(part) THEN [err |-> FALSE, vals |-> <<int(part)>>] ELSE TokenError

\* forks.py: the loop over the tokens inside one try: the first bad token ends it
RECURSIVE forks_parts(_)
forks_parts(parts) ==
  IF parts = <<>> THEN [err |-> FALSE, vals |-> <<>>]
  ELSE LET h == forks_part(Head(parts))
           t == forks_parts(Tail(parts))
       IN  IF h.err \/ t.err THEN TokenError
           ELSE [err |-> FALSE, vals |-> h.vals \o t.vals]

\* stars-git.py: the same loop, inside one try
RECURSIVE stars_parts(_)
stars_parts(parts) ==
  IF parts = <<>> THEN [err |-> FALSE, vals |-> <<>>]
  ELSE LET h == stars_part(Head(parts))
           t == stars_parts(Tail(parts))
       IN  IF h.err \/ t.err THEN TokenError
           ELSE [err |-> FALSE, vals |-> h.vals \o t.vals]

\* repos.py: each token in a try of its own: a bad token is passed over
RECURSIVE repos_parts(_)
repos_parts(parts) ==
  IF parts = <<>> THEN <<>>
  ELSE LET h == repos_part(Head(parts))
       IN  (IF h.err THEN <<>> ELSE h.vals) \o repos_parts(Tail(parts))

InRange(i, n) == 1 <= i /\ i <= n

\* what a parser leaves behind:
\*   raised    it raised ValueError
\*   rejected  it refused the whole text as malformed
\*   result    the raw index list built from the tokens
\*   value     the list returned (repos.py: the indices acted on)
\*   warned    the out-of-range indices the user is told about
Parsed(ra, rj, res, val, w) ==
  [raised |-> ra, rejected |-> rj, result |-> res, value |-> val, warned |-> w]

forks_parse_selection(sel, n) ==
  IF strip_is_empty(sel) THEN Parsed(FALSE, FALSE, <<>>, <<>>, 0)
  ELSE LET r == forks_parts(split(sel))
       IN  IF r.err THEN Parsed(TRUE, TRUE, <<>>, <<>>, 0)
           ELSE LET valid == SelectSeq(r.vals, LAMBDA i : InRange(i, n))
                IN  Parsed(FALSE, FALSE, r.vals, valid, Len(r.vals) - Len(valid))

\* a variant of stars_parse_selection that takes a text without tokens for
\* "everything"
stars_parse_selection_empty_is_all(sel, n) ==
  LET r == stars_parts(split(sel))
  IN  IF r.err THEN Parsed(FALSE, TRUE, <<>>, <<>>, 0)
      ELSE IF r.vals = <<>> THEN Parsed(FALSE, FALSE, <<>>, PyRange(1, n + 1), 0)
      ELSE Parsed(FALSE, FALSE, r.vals,
                  sorted_set(SelectSeq(r.vals, LAMBDA i : InRange(i, n))), 0)

stars_parse_selection(sel, n) ==
  LET r == stars_parts(split(sel))
  IN  IF r.err THEN Parsed(FALSE, TRUE, <<>>, <<>>, 0)
      ELSE Parsed(FALSE, FALSE, r.vals,
                  sorted_set(SelectSeq(r.vals, LAMBDA i : InRange(i, n))), 0)

\* repos.py: _process_selection builds selected_indices, gives up when it is empty,
\* and then walks it: an index in range is acted on, another one is reported
repos_process_selection(sel, n) ==
  LET built == repos_parts(split(sel))      \* selected_indices
      acted == SelectSeq(built, LAMBDA i : InRange(i, n))
  IN  Parsed(FALSE, FALSE, built, acted, Len(built) - Len(acted))

(***************************************************************************)
(* The selection step of each tool: the prompt, the parser, and what the   *)
(* caller does with the parser's answer.                                   *)
(***************************************************************************)
\* str.lower() on the answers to a yes/no prompt
lower(a) ==
  CASE a = "S" -> "s"
    [] a = "N" -> "n"
    [] a \in {"Python", "PYTHON"} -> "python"
    [] a = "Go" -> "go"
    [] a = "CLI" -> "cli"
    [] a = "Alice" -> "alice"
    [] OTHER -> a

Answers == {"s", "S", "n", ""}

\* a variant of delete_forks_catches with the handler of KeyboardInterrupt only
delete_forks_catches_interrupt_only(exception) == exception = "KeyboardInterrupt"

\* delete_forks: except ValueError (line 255) and except Exception (line 267)
\* both end the step with a message
delete_forks_catches(exception) == exception \in {"ValueError", "Exception"}

\* delete_forks, choice '2'
ForksSelect ==
  /\ spc = "prompt"
  /\ \E confirm \in Answers :
       LET p == forks_parse_selection(selection, max_index)
           asked == ~strip_is_empty(selection) /\ ~p.raised /\ p.value # <<>>
       IN  /\ asked \/ confirm = ""
           /\ result' = (IF strip_is_empty(selection) THEN <<>> ELSE p.result)
           /\ valid_indices' = (IF strip_is_empty(selection) THEN <<>> ELSE p.value)
           /\ warned' = (IF strip_is_empty(selection) THEN 0 ELSE p.warned)
           /\ raised' = (~strip_is_empty(selection) /\ p.raised)
           /\ escaped' = (~strip_is_empty(selection) /\ p.raised
                            /\ ~delete_forks_catches("ValueError"))
           /\ toMutate' = (IF asked /\ lower(confirm) = "s" THEN p.value ELSE <<>>)
  /\ stool' = "forks"
  /\ spc' = "selected"
  /\ UNCHANGED <<selection, max_index, batchVars, fetchVars,
                 filterVars, sessionVars, menuVars>>

\* interactive_menu, choice 4, subchoice 2
StarsSelect ==
  /\ spc = "prompt"
  /\ LET p == stars_parse_selection(selection, max_index)
     IN  /\ result' = p.result
         /\ valid_indices' = p.value
         /\ warned' = p.warned
         /\ raised' = p.raised
         /\ escaped' = FALSE
         /\ toMutate' = p.value
  /\ stool' = "stars"
  /\ spc' = "selected"
  /\ UNCHANGED <<selection, max_index, batchVars, fetchVars,
                 filterVars, sessionVars, menuVars>>

\* _manage_public_to_private / _manage_private_to_public, option 2
ReposSelect ==
  /\ spc = "prompt"
  /\ LET p == repos_process_selection(selection, max_index)
     IN  /\ result' = p.result
         /\ valid_indices' = p.value
         /\ warned' = p.warned
         /\ raised' = p.raised
         /\ escaped' = FALSE
         /\ toMutate' = p.value
  /\ stool' = "repos"
  /\ spc' = "selected"
  /\ UNCHANGED <<selection, max_index, batchVars, fetchVars,
                 filterVars, sessionVars, menuVars>>

(***************************************************************************)
(* The batch mutators.  The outcome of one mutation request is either a    *)
(* response with a status code or an exception raised by the request.      *)
(***************************************************************************)
Response(code) == [exc |-> FALSE, status |-> code]
Raised == [exc |-> TRUE, status |-> 0]

\* what the upstream may answer to a mutation request
Outcomes == {Response(200), Response(204), Response(404), Raised}

\* the upstream's data: the owner and the name of the record with id n, the
\* two halves of its full_name; the user owns all the records but one
owner_of(n) == IF n = 2 THEN "org" ELSE "Alice"
name_of(n) == n

\* the URL of a mutation request: the path before the repository, and the
\* owner and the name written after it
Url(path, owner, name) == [path |-> path, owner |-> owner, name |-> name]

\* forks.py _delete_repos: name = repo['full_name'], {GITHUB_API_URL}/repos/{name}
delete_url(repo) == Url("/repos", owner_of(repo), name_of(repo))

\* stars-git.py remove_stars: {GITHUB_API_URL}/user/starred/{full_name}
unstar_url(repo) == Url("/user/starred", owner_of(repo), name_of(repo))

\* repos.py change_repository_visibility:
\* {GITHUB_API_URL}/repos/{self.username}/{repo_name}
visibility_url(user, repo_name) == Url("/repos", user, repo_name)

\* the upstream: the records whose repository a URL names, whatever the
\* case of the owner
named_by(url) ==
  {n \in 1..MaxItems : lower(owner_of(n)) = lower(url.owner) /\ name_of(n) = url.name}

\* the upstream: a patch of a URL that names no repository is answered 404
PatchOutcomes(url) ==
  IF named_by(url) = {} THEN {Response(404), Raised} ELSE Outcomes

\* the upstream: a patch that is accepted sets the visibility of the
\* repository its URL names
patched(private, url, o, mp) ==
  IF o.exc \/ o.status >= 400 THEN private
  ELSE [n \in DOMAIN private |-> IF n \in named_by(url) THEN mp ELSE private[n]]

\* an entry of the log of requests: the record, the URL, whether the
\* record's repository was private when the request was sent, the outcome
Request(repo, url, o) ==
  [repo |-> repo, url |-> url, was_private |-> is_private[repo], outcome |-> o]

\* what one item adds to the two counters: <<successes, failures>>
Succeeded == <<1, 0>>
Failed == <<0, 1>>

\* a variant of delete_repos_tally whose exception handlers log the error
\* and leave error_count alone
delete_repos_tally_uncounted(o) ==
  IF o.exc THEN <<0, 0>>
  ELSE IF o.status = 204 THEN Succeeded
  ELSE Failed

\* forks.py _delete_repos: the try around one delete request
delete_repos_tally(o) ==
  IF o.exc THEN Failed                \* except RequestException / except Exception
  ELSE IF o.status = 204 THEN Succeeded
  ELSE Failed

\* stars-git.py remove_stars: the try around one unstar request
remove_stars_tally(o) ==
  IF o.exc THEN Failed                \* except Exception
  ELSE IF o.status \in {204, 200} THEN Succeeded
  ELSE Failed

\* a variant of change_repository_visibility without the call of
\* raise_for_status: any response is a success
change_repository_visibility_unchecked(o) == ~o.exc

\* repos.py change_repository_visibility: the first component of its result;
\* raise_for_status raises HTTPError for a status from 400 on
change_repository_visibility(o) ==
  IF o.exc THEN FALSE                 \* except RequestException
  ELSE IF o.status >= 400 THEN FALSE  \* raise_for_status, except RequestException
  ELSE TRUE

\* repos.py: if success: success_count += 1, else: error_count += 1
visibility_tally(o) == IF change_repository_visibility(o) THEN Succeeded ELSE Failed

\* a variant of delete_repos_next that stays on an item until its request
\* has succeeded
delete_repos_next_after_success(done, o) ==
  IF ~o.exc /\ o.status = 204 THEN done + 1 ELSE done

\* forks.py: for i, repo in enumerate(repos, 1): the loop goes to the
\* next item whatever the outcome of the request was
delete_repos_next(done, o) == done + 1

\* a variant of delete_repos_sleeps with <= in the place of <
delete_repos_sleeps_after_last(i, n) == IF i <= n THEN 1 ELSE 0

\* forks.py: if i < len(repos): time.sleep(RATE_LIMIT_PAUSE)
delete_repos_sleeps(i, n) == IF i < n THEN 1 ELSE 0

DeleteReposItem ==
  /\ bpc = "loop"
  /\ btool = "delete_repos"
  /\ done_items < Len(repos)
  /\ \E o \in Outcomes :
       LET i == done_items + 1
           c == delete_repos_tally(o)
       IN  /\ requests' = Append(requests, Request(repos[i], delete_url(repos[i]), o))
           /\ is_private' = is_private
           /\ success_count' = success_count + c[1]
           /\ error_count' = error_count + c[2]
           /\ sleeps' = sleeps + delete_repos_sleeps(i, Len(repos))
           /\ done_items' = delete_repos_next(done_items, o)
  /\ UNCHANGED <<bpc, btool, repos, selected_indices, notices, make_private,
                 selVars, fetchVars, filterVars, sessionVars, menuVars>>

RemoveStarsItem ==
  /\ bpc = "loop"
  /\ btool = "remove_stars"
  /\ done_items < Len(repos)
  /\ \E o \in Outcomes :
       LET i == done_items + 1
           c == remove_stars_tally(o)
       IN  /\ requests' = Append(requests, Request(repos[i], unstar_url(repos[i]), o))
           /\ is_private' = is_private
           /\ success_count' = success_count + c[1]
           /\ error_count' = error_count + c[2]
           /\ sleeps' = sleeps + 1
           /\ done_items' = i
  /\ UNCHANGED <<bpc, btool, repos, selected_indices, notices, make_private,
                 selVars, fetchVars, filterVars, sessionVars, menuVars>>

BatchChangeVisibilityItem ==
  /\ bpc = "loop"
  /\ btool = "batch_change_visibility"
  /\ done_items < Len(repos)
  /\ \E o \in PatchOutcomes(visibility_url(username, name_of(repos[done_items + 1]))) :
       LET i == done_items + 1
           url == visibility_url(username, name_of(repos[i]))
           c == visibility_tally(o)
       IN  /\ requests' = Append(requests, Request(repos[i], url, o))
           /\ is_private' = patched(is_private, url, o, make_private)
           /\ success_count' = success_count + c[1]
           /\ error_count' = error_count + c[2]
           /\ sleeps' = sleeps + 1
           /\ done_items' = i
  /\ UNCHANGED <<bpc, btool, repos, selected_indices, notices, make_private,
                 selVars, fetchVars, filterVars, sessionVars, menuVars>>

\* rs[i] of Python, whose lists count from 0
py_item(rs, i) == rs[i + 1]

\* repos.py print_repo_list: for i, repo in enumerate(repos): the number
\* printed before the record at position i is i + 1
shown_number(i) == i + 1

\* repos.py _process_selection: repo = repos[idx-1]
selected_repo(rs, idx) == py_item(rs, idx - 1)

\* _process_selection, the loop over selected_indices: an index in range
ProcessSelectionItem ==
  /\ bpc = "loop"
  /\ btool = "process_selection"
  /\ done_items < Len(selected_indices)
  /\ InRange(selected_indices[done_items + 1], Len(repos))
  /\ \E o \in PatchOutcomes(visibility_url(username,
              name_of(selected_repo(repos, selected_indices[done_items + 1])))) :
       LET idx == selected_indices[done_items + 1]
           repo == selected_repo(repos, idx)
           url == visibility_url(username, name_of(repo))
           c == visibility_tally(o)
       IN  /\ requests' = Append(requests, Request(repo, url, o))
           /\ is_private' = patched(is_private, url, o, make_private)
           /\ success_count' = success_count + c[1]
           /\ error_count' = error_count + c[2]
           /\ sleeps' = sleeps + 1
           /\ done_items' = done_items + 1
  /\ UNCHANGED <<bpc, btool, repos, selected_indices, notices, make_private,
                 selVars, fetchVars, filterVars, sessionVars, menuVars>>

\* _process_selection, the loop over selected_indices: an index out of range
ProcessSelectionSkip ==
  /\ bpc = "loop"
  /\ btool = "process_selection"
  /\ done_items < Len(selected_indices)
  /\ ~InRange(selected_indices[done_items + 1], Len(repos))
  /\ notices' = notices + 1
  /\ done_items' = done_items + 1
  /\ UNCHANGED <<bpc, btool, repos, selected_indices, success_count, error_count,
                 requests, sleeps, make_private, is_private, selVars, fetchVars,
                 filterVars, sessionVars, menuVars>>

\* the loop is over (or the list was empty): the summary, and the return
BatchReturn ==
  /\ bpc = "loop"
  /\ done_items = (IF btool = "process_selection" THEN Len(selected_indices)
                   ELSE Len(repos))
  /\ bpc' = "done"
  /\ UNCHANGED <<btool, repos, selected_indices, done_items, success_count,
                 error_count, requests, sleeps, notices, make_private, is_private,
                 selVars, fetchVars, filterVars, sessionVars, menuVars>>

(***************************************************************************)
(* The paginated fetches.  The upstream serves nFull pages of PerPage      *)
(* records, then the page tail, then empty pages.  A record carries the    *)
(* fields the tools read: its identity and the fork and private flags.     *)
(***************************************************************************)
Record(n, f, p) == [id |-> n, fork |-> f, private |-> p]

\* the records of the full pages: every combination of the flags occurs
FullRecord(n) == Record(n, n % 3 = 0, n % 2 = 0)

\* the pages an upstream with n full pages may end with
Tails(n) ==
  UNION { { [i \in 1..k |-> Record(n * PerPage + i, fs[i], ps[i])] :
              fs \in [1..k -> BOOLEAN], ps \in [1..k -> BOOLEAN] } : k \in 0..MaxTail }

\* the tails whose records are no forks and not private: stars-git.py reads
\* neither flag
PlainTails(n) ==
  {[i \in 1..k |-> Record(n * PerPage + i, FALSE, FALSE)] : k \in 0..MaxTail}

\* the upstream's answer to a successful request for page p
Page(p) ==
  IF p <= nFull THEN [i \in 1..PerPage |-> FullRecord((p - 1) * PerPage + i)]
  ELSE IF p = nFull + 1 THEN tail
  ELSE <<>>

\* what a page request may end in: a page, an HTTP error status
\* (raise_for_status), a transport error
Replies == {"ok", "http_error", "connection_error"}

NoRepositories == [PUBLIC |-> <<>>, PRIVATE |-> <<>>, FORK |-> <<>>]

\* a variant of goes_to with "if" in the place of "elif": the visibility branch
\* runs for the forks too
goes_to_without_elif(r, c) ==
  CASE c = "FORK"    -> r.fork
    [] c = "PRIVATE" -> r.private
    [] c = "PUBLIC"  -> ~r.private

\* a variant of goes_to that tests the private flag before the fork flag
goes_to_private_first(r, c) ==
  CASE c = "PRIVATE" -> r.private
    [] c = "FORK"    -> ~r.private /\ r.fork
    [] c = "PUBLIC"  -> ~r.private /\ ~r.fork

\* repos.py: the if / elif / else of the classification loop: whether record r
\* is appended to the list of category c
goes_to(r, c) ==
  CASE c = "FORK"    -> r.fork
    [] c = "PRIVATE" -> ~r.fork /\ r.private
    [] c = "PUBLIC"  -> ~r.fork /\ ~r.private

\* a variant of classify that puts each record at the head of its list
classify_newest_first(total_repos, into) ==
  [c \in {"PUBLIC", "PRIVATE", "FORK"} |->
     LET mine == SelectSeq(total_repos, LAMBDA r : goes_to(r, c))
     IN  [i \in 1..Len(mine) |-> mine[Len(mine) + 1 - i]] \o into[c]]

\* repos.py: the classification loop over total_repos, which appends each
\* record, in order, to the lists it goes to
classify(total_repos, into) ==
  [c \in {"PUBLIC", "PRIVATE", "FORK"} |->
     into[c] \o SelectSeq(total_repos, LAMBDA r : goes_to(r, c))]

\* forks.py: if not repos: break
forks_last_page(rs) == rs = <<>>

\* a variant of stars_short_page that takes a full page for a short one
stars_short_page_or_full(rs) == Len(rs) <= PerPage

\* stars-git.py: if len(repos) < 100: break
stars_short_page(rs) == Len(rs) < PerPage

\* repos.py: if not repos: break
repos_last_page(rs) == rs = <<>>

\* stars-git.py: what fetch_starred_repos does when a page request raises:
\* the three handlers print and fall through to return starred_repos
stars_on_error(starred_repos) == starred_repos

\* a variant of fetch_forks_keeps that keeps every record of the page
fetch_forks_keeps_all(repo) == TRUE

\* forks.py fetch_forks: page_forks = [repo for repo in repos if repo.get('fork')]
fetch_forks_keeps(repo) == repo.fork

\* forks.py fetch_forks, one turn of the loop
ForksFetchPage ==
  /\ fpc = "request"
  /\ ftool = "forks"
  /\ \E reply \in Replies :
       /\ pageRequests' = Append(pageRequests, page)
       /\ events' = Append(events, "page")
       /\ IF reply # "ok"
          THEN \* except RequestException: sys.exit(1)
               /\ fpc' = "exited"
               /\ failedReq' = TRUE
               /\ UNCHANGED <<page, acc, ret>>
          ELSE LET rs == Page(page)
               IN  /\ failedReq' = failedReq
                   /\ IF forks_last_page(rs)
                      THEN /\ fpc' = "returned"
                           /\ ret' = acc
                           /\ UNCHANGED <<page, acc>>
                      ELSE /\ acc' = acc \o SelectSeq(rs, fetch_forks_keeps)
                           /\ page' = page + 1
                           /\ UNCHANGED <<fpc, ret>>
  /\ UNCHANGED <<ftool, nFull, tail, rechecks, fetchOk, repositories, now, reads,
                 waits, rate_ret, language_filter, topic_filter, lookupFailed,
                 selVars, batchVars,
                 filterVars, sessionVars, menuVars>>

\* stars-git.py: RATE_LIMIT_PAUSE
STARS_RATE_LIMIT_PAUSE == 1

\* the clock when the tool starts
StartEpoch == 1000

\* what the upstream may answer to the quota request: remaining, and the
\* reset time as an offset from the clock (a reset five seconds back makes a
\* wait of 0, one four seconds back a wait of 1)
Remainings == {4, 5}
ResetOffsets == {-5, -4}

QuotaReplies ==
  {[ok |-> FALSE, kind |-> k, remaining |-> 0, offset |-> 0] :
     k \in {"transport_error", "http_error", "malformed_body"}}
  \cup {[ok |-> TRUE, kind |-> "quota", remaining |-> r, offset |-> d] :
          r \in Remainings, d \in ResetOffsets}

\* a variant of quota_low that takes a quota of 5 for a low one
quota_low_at_5(remaining) == remaining <= 5

\* check_rate_limit: if remaining < 5
quota_low(remaining) == remaining < 5

\* a variant of wait_time without the margin of 5 seconds
wait_time_without_margin(reset_time, current_time) == reset_time - current_time

\* check_rate_limit: wait_time = reset_time - current_time + 5
wait_time(reset_time, current_time) == reset_time - current_time + 5

\* a variant of DefaultQuota that reports an exhausted quota
DefaultQuota_exhausted == <<0, 0>>

\* check_rate_limit: except Exception: return 1000, 0
DefaultQuota == <<1000, 0>>

\* before any call of check_rate_limit
RateAtRest ==
  /\ now = StartEpoch
  /\ reads = <<>>
  /\ waits = <<>>
  /\ rate_ret = <<>>
  /\ events = <<>>

\* stars-git.py check_rate_limit, one quota request of a call made by
\* fetch_starred_repos (rechecks = 0: the call itself; otherwise the recursive
\* call after a sleep).  It returns to the loop, or sleeps and calls itself.
StarsCheckRateLimit ==
  /\ fpc = "rate"
  /\ ftool = "stars"
  /\ \E reply \in QuotaReplies :
       LET called       == rechecks = 0
           earlier      == IF called THEN <<>> ELSE reads
           slept        == IF called THEN <<>> ELSE waits
           reset_time   == now + reply.offset
           current_time == now
           read == [ok |-> reply.ok, kind |-> reply.kind,
                    remaining |-> reply.remaining, reset_time |-> reset_time,
                    current_time |-> current_time]
       IN  /\ reads' = Append(earlier, read)
           /\ events' = (IF called THEN Append(events, "check_rate_limit") ELSE events)
           /\ IF ~reply.ok
              THEN \* except Exception: return 1000, 0
                   /\ rate_ret' = DefaultQuota
                   /\ waits' = slept
                   /\ rechecks' = 0
                   /\ fpc' = "request"
                   /\ now' = now
              ELSE IF quota_low(reply.remaining) /\ wait_time(reset_time, current_time) > 0
              THEN \* time.sleep(wait_time); return check_rate_limit(headers)
                   /\ rechecks < MaxRechecks
                   /\ waits' = Append(slept, wait_time(reset_time, current_time))
                   /\ now' = now + wait_time(reset_time, current_time)
                   /\ rechecks' = rechecks + 1
                   /\ UNCHANGED <<fpc, rate_ret>>
              ELSE \* return remaining, reset_time
                   /\ rate_ret' = <<reply.remaining, reset_time>>
                   /\ waits' = slept
                   /\ rechecks' = 0
                   /\ fpc' = "request"
                   /\ now' = now
  /\ UNCHANGED <<ftool, nFull, tail, page, acc, pageRequests, failedReq, ret,
                 fetchOk, repositories, language_filter, topic_filter, lookupFailed,
                 selVars, batchVars,
                 filterVars, sessionVars, menuVars>>

\* Python's None, and the test "if x" on a filter: None and '' are false
None == "<None>"
truthy(x) == x \notin {None, ""}

\* the filters a starred fetch may be given
LanguageFilters == {None, "PYTHON"}
TopicFilters == {None, "cli"}

\* the upstream's data: repo.get('language') of the record with id n
language_of(n) ==
  CASE n % 4 = 1 -> "Python"
    [] n % 4 = 2 -> None
    [] n % 4 = 3 -> "Go"
    [] OTHER     -> "python"

\* the upstream's data: the 'names' of the topics of the record with id n
topics_of(n) == IF n % 2 = 0 THEN {"CLI", "tools"} ELSE {"web"}

\* fetch_starred_repos, line 177: the record is passed over for its language
language_skips(repo, lf) ==
  /\ truthy(lf)
  /\ truthy(language_of(repo.id))
  /\ lower(language_of(repo.id)) # lower(lf)

\* a variant of topic_keeps whose handler of a failed lookup lets the record
\* through
topic_keeps_on_failure(repo, tf, failed) ==
  \/ ~truthy(tf)
  \/ repo.id \in failed
  \/ lower(tf) \in {lower(t) : t \in topics_of(repo.id)}

\* fetch_starred_repos, lines 180-195: the record gets past the topic filter;
\* a record whose lookup failed is passed over (except ...: continue)
topic_keeps(repo, tf, failed) ==
  \/ ~truthy(tf)
  \/ /\ repo.id \notin failed
     /\ lower(tf) \in {lower(t) : t \in topics_of(repo.id)}

\* fetch_starred_repos, lines 174-201: what a page adds to starred_repos
filtered_repos(rs, lf, tf, failed) ==
  IF truthy(lf) \/ truthy(tf)
  THEN SelectSeq(rs, LAMBDA repo : ~language_skips(repo, lf) /\ topic_keeps(repo, tf, failed))
  ELSE rs

\* the topics lookups of a page that may fail: at most one per page, for one
\* of its first MaxBadLookup records, and only if the record is looked up
BadLookups(rs, lf, tf) ==
  {{}} \cup {{rs[k].id} : k \in {k \in DOMAIN rs : /\ k <= MaxBadLookup
                                                   /\ truthy(tf)
                                                   /\ ~language_skips(rs[k], lf)}}

\* stars-git.py fetch_starred_repos, one turn of the loop
StarsFetchPage ==
  /\ fpc = "request"
  /\ ftool = "stars"
  /\ \E reply \in Replies :
       /\ pageRequests' = Append(pageRequests, page)
       /\ events' = Append(events, "page")
       /\ IF reply # "ok"
          THEN \* except HTTPError / ConnectionError / Exception, then the return
               /\ now' = now
               /\ fpc' = "returned"
               /\ failedReq' = TRUE
               /\ ret' = stars_on_error(acc)
               /\ UNCHANGED <<page, acc, lookupFailed>>
          ELSE LET rs == Page(page)
               IN  /\ failedReq' = failedReq
                   /\ IF rs = <<>>
                      THEN /\ now' = now
                           /\ fpc' = "returned"
                           /\ ret' = acc
                           /\ UNCHANGED <<page, acc, lookupFailed>>
                      ELSE \E failed \in BadLookups(rs, language_filter, topic_filter) :
                        LET kept == filtered_repos(rs, language_filter, topic_filter, failed)
                        IN  /\ lookupFailed' = lookupFailed \cup failed
                            /\ acc' = acc \o kept
                            /\ IF stars_short_page(rs)
                               THEN /\ now' = now
                                    /\ fpc' = "returned"
                                    /\ ret' = acc \o kept
                                    /\ UNCHANGED page
                               ELSE /\ page' = page + 1
                                    /\ now' = now + STARS_RATE_LIMIT_PAUSE   \* time.sleep
                                    /\ fpc' = "rate"
                                    /\ UNCHANGED ret
  /\ UNCHANGED <<ftool, nFull, tail, rechecks, fetchOk, repositories, reads, waits,
                 rate_ret, language_filter, topic_filter, selVars, batchVars,
                 filterVars, sessionVars, menuVars>>

\* repos.py fetch_repositories, up to the loop: self.repositories is emptied
ReposFetchStart ==
  /\ fpc = "start"
  /\ ftool = "repos"
  /\ repositories' = NoRepositories
  /\ fpc' = "request"
  /\ UNCHANGED <<ftool, nFull, tail, page, acc, pageRequests, failedReq, rechecks,
                 ret, fetchOk, now, reads, waits, rate_ret, events, language_filter,
                 topic_filter, lookupFailed, selVars, batchVars,
                 filterVars, sessionVars, menuVars>>

\* repos.py fetch_repositories, one turn of the loop; after the last turn the
\* classification and the return
ReposFetchPage ==
  /\ fpc = "request"
  /\ ftool = "repos"
  /\ \E reply \in Replies :
       /\ pageRequests' = Append(pageRequests, page)
       /\ events' = Append(events, "page")
       /\ IF reply # "ok"
          THEN \* except RequestException: return False
               /\ fpc' = "returned"
               /\ failedReq' = TRUE
               /\ fetchOk' = FALSE
               /\ UNCHANGED <<page, acc, repositories>>
          ELSE LET rs == Page(page)
               IN  /\ failedReq' = failedReq
                   /\ IF repos_last_page(rs)
                      THEN /\ repositories' = classify(acc, repositories)
                           /\ fetchOk' = TRUE
                           /\ fpc' = "returned"
                           /\ UNCHANGED <<page, acc>>
                      ELSE /\ acc' = acc \o rs
                           /\ page' = page + 1
                           /\ UNCHANGED <<fpc, fetchOk, repositories>>
  /\ UNCHANGED <<ftool, nFull, tail, rechecks, ret, now, reads, waits, rate_ret,
                 language_filter, topic_filter, lookupFailed, selVars, batchVars,
                 filterVars, sessionVars, menuVars>>

(***************************************************************************)
(* stars-git.py: filter_starred_repos, the filter chosen from a menu.      *)
(***************************************************************************)
\* the longest list filter_starred_repos is given, and the ids it is made of
MaxStarred == 3

\* the upstream's data: r['stargazers_count'] of the record with id n
stargazers_count_of(n) == (7 * n) % 5

\* the time of day of every 'updated_at' of the upstream
TimeOfDay == <<"T", "1", "0", ":", "0", "0", ":", "0", "0", "Z">>

\* the upstream's data: r['updated_at'] of the record with id n
updated_at_of(n) ==
  CASE n % 4 = 1 -> <<"2", "0", "2", "4", "-", "0", "1", "-", "0", "4">> \o TimeOfDay
    [] n % 4 = 2 -> <<"2", "0", "2", "4", "-", "0", "1", "-", "0", "5">> \o TimeOfDay
    [] n % 4 = 3 -> <<"2", "0", "2", "3", "-", "1", "2", "-", "3", "1">> \o TimeOfDay
    [] OTHER     -> <<"2", "0", "2", "4", "-", "0", "3", "-", "1", "0">> \o TimeOfDay

\* s.split('T')[0]: the text before the first "T", the whole text without one
split_T_first(s) ==
  IF \E i \in DOMAIN s : s[i] = "T"
  THEN SubSeq(s, 1, Min({i \in DOMAIN s : s[i] = "T"}) - 1)
  ELSE s

\* the directive %Y of strptime: \d\d\d\d
year_matches(p) == Len(p) = 4 /\ \A i \in DOMAIN p : p[i] \in Digits

\* the directive %m of strptime: 1[0-2]|0[1-9]|[1-9]
month_matches(p) ==
  \/ Len(p) = 2 /\ p[1] = "1" /\ p[2] \in {"0", "1", "2"}
  \/ Len(p) = 2 /\ p[1] = "0" /\ p[2] \in Digits \ {"0"}
  \/ Len(p) = 1 /\ p[1] \in Digits \ {"0"}

\* the directive %d of strptime: 3[01]|[12]\d|0[1-9]|[1-9]| [1-9]
day_matches(p) ==
  \/ Len(p) = 2 /\ p[1] = "3" /\ p[2] \in {"0", "1"}
  \/ Len(p) = 2 /\ p[1] \in {"1", "2"} /\ p[2] \in Digits
  \/ Len(p) = 2 /\ p[1] = "0" /\ p[2] \in Digits \ {"0"}
  \/ Len(p) = 1 /\ p[1] \in Digits \ {"0"}
  \/ Len(p) = 2 /\ p[1] = " " /\ p[2] \in Digits \ {"0"}

\* the number a matched piece stands for (the blank of " 5" is no digit)
piece_value(p) == int(SelectSeq(p, LAMBDA c : c \in Digits))

is_leap(y) == y % 4 = 0 /\ (y % 100 # 0 \/ y % 400 = 0)

days_in_month(y, m) ==
  CASE m = 2 -> IF is_leap(y) THEN 29 ELSE 28
    [] m \in {4, 6, 9, 11} -> 30
    [] OTHER -> 31

\* datetime.strptime(s, "%Y-%m-%d"): the text must match the three directives
\* joined by dashes with nothing left over, and name a day of the calendar
\* (years start at 1); anything else is a ValueError.  Two dates compare as
\* their (year, month, day), which is the order of 'date'.
strptime(s) ==
  LET p == split_dash(s)
      shaped == /\ Len(p) = 3
                /\ year_matches(p[1])
                /\ month_matches(p[2])
                /\ day_matches(p[3])
      y == piece_value(p[1])
      m == piece_value(p[2])
      d == piece_value(p[3])
  IN  IF shaped /\ y >= 1 /\ d <= days_in_month(y, m)
      THEN [error |-> "none", date |-> (y * 100 + m) * 100 + d]
      ELSE [error |-> "ValueError", date |-> 0]

\* the comparison of the date filter: ... >= date_threshold
on_or_after_exclusive(updated, threshold) == updated > threshold
on_or_after(updated, threshold) == updated >= threshold

\* both handlers of filter_starred_repos: except ValueError
filter_catches(exception) == exception = "ValueError"

\* what a call of filter_starred_repos comes to
Gives(value) == [raised |-> FALSE, value |-> value]
Raises == [raised |-> TRUE, value |-> <<>>]

\* an exception in the try blocks: a handler returns the list given, or it escapes
OnException(exception, rs) ==
  IF filter_catches(exception) THEN Gives(rs) ELSE Raises

\* choice 1: the records whose language is the one typed, whatever the case
filter_by_language(rs, language) ==
  Gives(SelectSeq(rs, LAMBDA r :
          /\ truthy(language_of(r.id))
          /\ lower(language_of(r.id)) = lower(language)))

\* choice 2: int() of the text typed, then the records with that many stars
filter_by_stars(rs, typed) ==
  IF ~int_ok(typed) THEN OnException("ValueError", rs)
  ELSE Gives(SelectSeq(rs, LAMBDA r :
               stargazers_count_of(r.id) >= int(typed)))

\* choice 3: strptime() of the text typed, then of every record's date
filter_by_date(rs, date_str) ==
  LET date_threshold == strptime(date_str)
      updated(r) == strptime(split_T_first(updated_at_of(r.id)))
  IN  IF date_threshold.error # "none"
      THEN OnException(date_threshold.error, rs)
      ELSE IF \E i \in DOMAIN rs : updated(rs[i]).error # "none"
      THEN OnException("ValueError", rs)
      ELSE Gives(SelectSeq(rs, LAMBDA r :
                   on_or_after(updated(r).date, date_threshold.date)))

filter_starred_repos(rs, choice, language, typed) ==
  IF rs = <<>> THEN Gives(<<>>)
  ELSE IF ~int_ok(choice) THEN OnException("ValueError", rs)
  ELSE CASE int(choice) = 1 -> filter_by_language(rs, language)
         [] int(choice) = 2 -> filter_by_stars(rs, typed)
         [] int(choice) = 3 -> filter_by_date(rs, typed)
         [] OTHER           -> Gives(rs)

\* the texts typed at the menu, for the language, for the stars, for the date
\* (none for int() holds a sign or blanks, which int() would take)
ChoiceInputs == {<<"1">>, <<"2">>, <<"3">>, <<"4">>, <<"a">>, <<>>}
LanguageInputs == {"PYTHON", "go", ""}
StarsInputs == {<<"2">>, <<"a">>}
DateInputs ==
  { <<"2", "0", "2", "4", "-", "0", "1", "-", "0", "5">>,
    <<"2", "0", "2", "4", "-", "1", "-", "5">>,
    <<"2", "0", "2", "4", "-", "0", "1", "-", " ", "5">>,
    <<"2", "0", "2", "4", "-", "0", "2", "-", "2", "9">>,
    <<"2", "0", "2", "4", "-", "0", "2", "-", "3", "0">>,
    <<"2", "0", "2", "3", "-", "0", "2", "-", "2", "9">>,
    <<"2", "0", "2", "4", "-", "1", "3", "-", "0", "1">>,
    <<"2", "0", "2", "4", "/", "0", "1", "/", "0", "5">>,
    <<"2", "0", "2", "4", "-", "0", "1", "-", "0", "5", " ">>,
    <<"0", "0", "0", "0", "-", "0", "1", "-", "0", "1">>,
    <<"2", "4", "-", "0", "1", "-", "0", "5">>,
    <<"a", "b", "c">>,
    <<>> }

\* the lists of starred records: any records of the upstream, in any order
StarredLists ==
  UNION {[1..n -> {Record(i, FALSE, FALSE) : i \in 1..MaxStarred}] :
           n \in 0..MaxStarred}

FilterStarredRepos ==
  /\ flpc = "called"
  /\ LET out == filter_starred_repos(starred, fchoice, flanguage, ftyped)
     IN  /\ flpc' = (IF out.raised THEN "raised" ELSE "returned")
         /\ filtered' = out.value
  /\ UNCHANGED <<starred, fchoice, flanguage, ftyped, selVars, batchVars,
                 fetchVars, sessionVars, menuVars>>

FilterAtRest ==
  /\ flpc = "rest"
  /\ starred = <<>>
  /\ fchoice = <<>>
  /\ flanguage = ""
  /\ ftyped = <<>>
  /\ filtered = <<>>

(***************************************************************************)
(* The run of each tool: the credentials, the profile request that         *)
(* validates them, and the requests the tool goes on to send.              *)
(***************************************************************************)
\* most turns of the main menu of repos.py in one run
MaxTurns == 2

\* the user names and the tokens of the credentials, stored or typed
Usernames == {"alice", "bob"}
Tokens == {"tokA", "tokB", "expired"}

\* the upstream's data: the 'login' of the profile a token belongs to
login_of(tk) ==
  CASE tk = "tokA" -> "Alice"
    [] tk = "tokB" -> "bob"
    [] OTHER       -> None

Credentials(u, tk) == [username |-> u, token |-> tk]

\* the exit status of a process that has not exited
Running == -1

\* no credentials file: load_credentials gives None, None
NoCredentials == Credentials(None, None)

\* what the credentials file may hold when a tool starts
StoredCredentials ==
  {NoCredentials} \cup {Credentials(u, tk) : u \in Usernames, tk \in Tokens}

\* what may be typed at the prompts: input() takes an empty user name too
TypedCredentials == {Credentials(u, tk) : u \in Usernames \cup {""}, tk \in Tokens}

\* what GET /user may come to: a transport error, or the upstream's answer
\* for the token, a profile or 401
ProfileReplies(tk) ==
  {[kind |-> "transport_error", login |-> None]}
    \cup (IF login_of(tk) = None
          THEN {[kind |-> "http_error", login |-> None]}
          ELSE {[kind |-> "ok", login |-> login_of(tk)]})

\* the profile request of a validation and its check:
\* raise_for_status(), then user_data['login'].lower() != username.lower()
validation(u, reply) ==
  IF reply.kind # "ok" THEN reply.kind
  ELSE IF lower(reply.login) # lower(u) THEN "mismatch"
  ELSE "ok"

\* the entries of the log of a run
Prompted == [ev |-> "prompt", username |-> None, token |-> None, outcome |-> None]
Profile(c, reply) ==
  [ev |-> "profile", username |-> c.username, token |-> c.token,
   outcome |-> validation(c.username, reply)]
Issued(kind, u, h) == [ev |-> kind, username |-> u, token |-> h, outcome |-> None]

\* 'if not username or not token' / 'if self.username and self.token'
have(c) == truthy(c.username) /\ truthy(c.token)

\* forks.py: main up to its call of fetch_forks
ForksMain ==
  /\ apc = "start"
  /\ atool = "forks"
  /\ IF have(stored)
     THEN \* validate_token(username, token) on the stored credentials
          \E reply \in ProfileReplies(stored.token) :
            LET p == Profile(stored, reply)
            IN  /\ trace' = Append(trace, p)
                /\ username' = stored.username
                /\ token' = stored.token
                /\ IF p.outcome = "ok"
                   THEN /\ headers' = stored.token
                        /\ apc' = "work"
                        /\ exit_status' = exit_status
                   ELSE /\ headers' = headers
                        /\ apc' = "exited"
                        /\ exit_status' = 1
                /\ stored' = stored
     ELSE \* get_user_credentials(), validate_token, save_credentials
          \E typed \in TypedCredentials :
            IF ~have(typed)
            THEN /\ trace' = Append(trace, Prompted)
                 /\ apc' = "exited"
                 /\ exit_status' = 1
                 /\ UNCHANGED <<username, token, headers, stored>>
            ELSE \E reply \in ProfileReplies(typed.token) :
                   LET p == Profile(typed, reply)
                   IN  /\ trace' = trace \o <<Prompted, p>>
                       /\ username' = typed.username
                       /\ token' = typed.token
                       /\ IF p.outcome = "ok"
                          THEN /\ headers' = typed.token
                               /\ stored' = typed
                               /\ apc' = "work"
                               /\ exit_status' = exit_status
                          ELSE /\ headers' = headers
                               /\ stored' = stored
                               /\ apc' = "exited"
                               /\ exit_status' = 1
  /\ UNCHANGED <<atool, turns, selVars, batchVars, fetchVars, filterVars, menuVars>>

\* stars-git.py: main up to its call of interactive_menu, with
\* load_credentials and setup_credentials
StarsMain ==
  /\ apc = "start"
  /\ atool = "stars"
  /\ \E typed \in TypedCredentials :
     \E first \in ProfileReplies(typed.token) :
       LET setup  == ~have(stored)
           p1     == Profile(typed, first)
           before == IF setup THEN <<Prompted, p1>> ELSE <<>>
           creds  == IF setup THEN typed ELSE stored
       IN  /\ setup \/ (typed = Credentials("", "expired") /\ first.kind = "transport_error")
           /\ IF setup /\ p1.outcome # "ok"
              THEN \* setup_credentials: sys.exit(1)
                   /\ trace' = trace \o before
                   /\ apc' = "exited"
                   /\ exit_status' = 1
                   /\ UNCHANGED <<username, token, headers, stored>>
              ELSE \* validate_token(username, token)
                   \E reply \in ProfileReplies(creds.token) :
                     LET p == Profile(creds, reply)
                     IN  /\ trace' = trace \o before \o <<p>>
                         /\ stored' = creds
                         /\ username' = creds.username
                         /\ token' = creds.token
                         /\ IF p.outcome = "ok"
                            THEN /\ headers' = creds.token
                                 /\ apc' = "work"
                                 /\ exit_status' = exit_status
                            ELSE /\ headers' = headers
                                 /\ apc' = "exited"
                                 /\ exit_status' = 1
  /\ UNCHANGED <<atool, turns, selVars, batchVars, fetchVars, filterVars, menuVars>>

\* forks.py: fetch_forks(headers), delete_forks(headers, forks);
\* stars-git.py: interactive_menu(headers, username).  The tool fetches, may
\* mutate, and ends.
ToolWork ==
  /\ apc = "work"
  /\ atool \in {"forks", "stars"}
  /\ \E mutates \in BOOLEAN :
       trace' = trace \o <<Issued("fetch", username, headers)>>
                      \o (IF mutates THEN <<Issued("mutation", username, headers)>>
                          ELSE <<>>)
  /\ apc' = "exited"
  /\ exit_status' = 0
  /\ UNCHANGED <<atool, stored, username, token, headers, turns, selVars,
                 batchVars, fetchVars, filterVars, menuVars>>

\* repos.py: run up to its main menu
ReposRun ==
  /\ apc = "start"
  /\ atool = "repos"
  /\ \E typed \in TypedCredentials :
     \E first \in ProfileReplies(stored.token), reply \in ProfileReplies(typed.token) :
       LET p1 == Profile(stored, first)
           p2 == Profile(typed, reply)
       IN  IF have(stored) /\ p1.outcome = "ok"
           THEN /\ typed = Credentials("", "expired")
                /\ reply.kind = "transport_error"
                /\ trace' = Append(trace, p1)
                /\ username' = stored.username
                /\ token' = stored.token
                /\ headers' = stored.token
                /\ apc' = "menu"
                /\ UNCHANGED <<stored, exit_status>>
           ELSE \* self.username, self.token = self.get_user_credentials()
                /\ have(stored) \/ first.kind = "transport_error"
                /\ trace' = trace \o (IF have(stored) THEN <<p1>> ELSE <<>>)
                                  \o <<Prompted, p2>>
                /\ username' = typed.username
                /\ token' = typed.token
                /\ IF p2.outcome = "ok"
                   THEN /\ headers' = typed.token
                        /\ stored' = typed
                        /\ apc' = "menu"
                        /\ exit_status' = exit_status
                   ELSE /\ headers' = headers
                        /\ stored' = stored
                        /\ apc' = "exited"
                        /\ exit_status' = 1
  /\ UNCHANGED <<atool, turns, selVars, batchVars, fetchVars, filterVars, menuVars>>

\* repos.py: the request of the statistics that opens every turn of the menu
Statistics == Issued("statistics", username, headers)

\* fetch_repositories: 'if not (self.username and self.headers): return False'
repos_fetch == IF truthy(username) /\ truthy(headers)
               THEN <<Issued("fetch", username, headers)>> ELSE <<>>

\* repos.py: main menu, option 1
ReposList ==
  /\ apc = "menu"
  /\ turns < MaxTurns
  /\ turns' = turns + 1
  /\ trace' = trace \o <<Statistics>> \o repos_fetch
  /\ UNCHANGED <<apc, atool, stored, username, token, headers, exit_status,
                 selVars, batchVars, fetchVars, filterVars, menuVars>>

\* repos.py: main menu, option 2: manage_visibility fetches, and a selection
\* of the list fetched may be patched
ReposManage ==
  /\ apc = "menu"
  /\ turns < MaxTurns
  /\ turns' = turns + 1
  /\ \E patches \in BOOLEAN :
       /\ patches => repos_fetch # <<>>
       /\ trace' = trace \o <<Statistics>> \o repos_fetch
                     \o (IF patches THEN <<Issued("mutation", username, headers)>>
                         ELSE <<>>)
  /\ UNCHANGED <<apc, atool, stored, username, token, headers, exit_status,
                 selVars, batchVars, fetchVars, filterVars, menuVars>>

\* repos.py: main menu, option 3:
\*   self.username, self.token = self.get_user_credentials()
\*   if self.validate_credentials(self.username, self.token): save_credentials
ReposChangeCredentials ==
  /\ apc = "menu"
  /\ turns < MaxTurns
  /\ turns' = turns + 1
  /\ \E typed \in TypedCredentials :
     \E reply \in ProfileReplies(typed.token) :
       LET p == Profile(typed, reply)
       IN  /\ trace' = trace \o <<Statistics, Prompted, p>>
           /\ username' = typed.username
           /\ token' = typed.token
           /\ IF p.outcome = "ok"
              THEN headers' = typed.token /\ stored' = typed
              ELSE headers' = headers /\ stored' = stored
  /\ UNCHANGED <<apc, atool, exit_status, selVars, batchVars, fetchVars,
                 filterVars, menuVars>>

\* repos.py: main menu, option 4: sys.exit(0)
ReposExit ==
  /\ apc = "menu"
  /\ trace' = Append(trace, Statistics)
  /\ apc' = "exited"
  /\ exit_status' = 0
  /\ UNCHANGED <<atool, stored, username, token, headers, turns, selVars,
                 batchVars, fetchVars, filterVars, menuVars>>

\* the run of a tool whose credentials were validated, at rest: the
\* mutators of repos.py read self.username
SessionValidated ==
  /\ apc = "rest"
  /\ atool = "none"
  /\ stored = Credentials("alice", "tokA")
  /\ username = "alice"
  /\ token = "tokA"
  /\ headers = "tokA"
  /\ exit_status = Running
  /\ trace = <<>>
  /\ turns = 0

SessionAtRest ==
  /\ apc = "rest"
  /\ atool = "none"
  /\ stored = NoCredentials
  /\ username = None
  /\ token = None
  /\ headers = None
  /\ exit_status = Running
  /\ trace = <<>>
  /\ turns = 0

(***************************************************************************)
(* The menus of deletion: delete_forks of forks.py, which main() runs on   *)
(* the list fetch_forks returned, and choice 4 of interactive_menu of      *)
(* stars-git.py, which works on the main list of the menu.  The mutator    *)
(* each one calls is the loop of the batch part.                           *)
(***************************************************************************)
\* str.strip() on the texts typed for a choice
strip(t) ==
  CASE t = " 1" -> "1"
    [] t = "2 " -> "2"
    [] OTHER -> t

\* the texts typed at the prompts of the two menus
ForksChoices == {"1", " 1", "2", "2 ", "3", "4", ""}
AllConfirmations == {"ELIMINAR", "eliminar", "ELIMINAR ", "s", ""}
Subchoices == {"1", "2", "3", "a"}
MenuSelections ==
  {<<>>, <<" ">>, <<"1">>, <<"1", " ", "1">>, <<"3">>, <<"a">>,
   <<"1", "-", "3">>, <<"3", "-", "1">>, <<"1", " ", "a">>}

\* the prompt at which input() raises KeyboardInterrupt, None for no Ctrl-C
InterruptAt == {None, "choice", "selection", "confirm"}

\* a variant of confirms_all that takes the answer of a yes/no prompt too
confirms_all_or_s(confirm) == confirm \in {"ELIMINAR", "s"}

\* delete_forks, choice '1': if confirm == 'ELIMINAR'
confirms_all(confirm) == confirm = "ELIMINAR"

\* delete_forks, choice '2': if confirm.lower() == 's'
confirms_selected(confirm) == lower(confirm) = "s"

\* what a menu did up to the call of its mutator: the texts typed at the
\* prompts it showed (None, or the empty selection, for a prompt it did not
\* show), the prompt that Ctrl-C ended, whether the mutator was called, and
\* the list it was called with
Menu(choice, sel, confirm, at, called, selected) ==
  [choice |-> choice, selection |-> sel, confirm |-> confirm, interrupt |-> at,
   called |-> called, selected |-> selected]

\* selected = [forks[i-1] for i in indices]
pick(list, indices) == [k \in DOMAIN indices |-> list[indices[k]]]

\* forks.py delete_forks, for a list of forks that is not empty.  Ctrl-C at a
\* prompt goes to except KeyboardInterrupt, a ValueError of parse_selection
\* to except ValueError: both print a message and return.
delete_forks(forks, choice, sel, confirm, at) ==
  IF at = "choice" THEN Menu(None, <<>>, None, at, FALSE, <<>>)
  ELSE IF strip(choice) = "1"
  THEN IF at = "confirm" THEN Menu(choice, <<>>, None, at, FALSE, <<>>)
       ELSE IF confirms_all(confirm)
       THEN Menu(choice, <<>>, confirm, None, TRUE, forks)
       ELSE Menu(choice, <<>>, confirm, None, FALSE, <<>>)
  ELSE IF strip(choice) = "2"
  THEN IF at = "selection" THEN Menu(choice, <<>>, None, at, FALSE, <<>>)
       ELSE LET p == forks_parse_selection(sel, Len(forks))
            IN  IF strip_is_empty(sel) \/ p.raised \/ p.value = <<>>
                THEN Menu(choice, sel, None, None, FALSE, <<>>)
                ELSE IF at = "confirm"
                THEN Menu(choice, sel, None, at, FALSE, <<>>)
                ELSE IF confirms_selected(confirm)
                THEN Menu(choice, sel, confirm, None, TRUE, pick(forks, p.value))
                ELSE Menu(choice, sel, confirm, None, FALSE, <<>>)
  ELSE \* choice '3', or a choice that is not valid
       Menu(choice, <<>>, None, None, FALSE, <<>>)

\* stars-git.py interactive_menu, choice 4, for a main list that is not
\* empty, up to the call of remove_stars.  int() of a subchoice that is no
\* number raises ValueError, which the menu loop catches.
unstar_menu(main, subchoice, sel, confirm) ==
  IF subchoice = "1"
  THEN IF lower(confirm) = "s"
       THEN Menu(subchoice, <<>>, confirm, None, TRUE, main)
       ELSE Menu(subchoice, <<>>, confirm, None, FALSE, <<>>)
  ELSE IF subchoice = "2"
  THEN LET indices == stars_parse_selection(sel, Len(main)).value
       IN  IF indices # <<>>
           THEN Menu(subchoice, sel, None, None, TRUE, pick(main, indices))
           ELSE Menu(subchoice, sel, None, None, FALSE, <<>>)
  ELSE Menu(subchoice, <<>>, None, None, FALSE, <<>>)

\* the ids of a list of records
ids(list) == [k \in DOMAIN list |-> list[k].id]

\* stars-git.py interactive_menu, lines 540-541:
\* selected_ids = {repo['id'] for repo in selected}
\* repos = [repo for repo in repos if repo['id'] not in selected_ids]
update_main_list(main, selected) ==
  LET selected_ids == {selected[k].id : k \in DOMAIN selected}
  IN  SelectSeq(main, LAMBDA repo : repo.id \notin selected_ids)

\* the mutator is entered with the list a menu hands it
EnterMutator(tool, list) ==
  /\ bpc' = "loop"
  /\ btool' = tool
  /\ repos' = ids(list)
  /\ selected_indices' = <<>>
  /\ done_items' = 0
  /\ success_count' = 0
  /\ error_count' = 0
  /\ requests' = <<>>
  /\ sleeps' = 0
  /\ notices' = 0
  /\ UNCHANGED <<make_private, is_private>>

\* what a menu leaves behind it
AfterMenu(m) ==
  /\ mchoice' = m.choice
  /\ mselection' = m.selection
  /\ mconfirm' = m.confirm
  /\ minterrupt' = m.interrupt
  /\ mselected' = m.selected
  /\ mpc' = (IF m.called THEN "mutating" ELSE "done")

\* forks.py main(), lines 346-347: forks = fetch_forks(headers), then
\* delete_forks(headers, forks) up to its call of _delete_repos
DeleteForks ==
  /\ mpc = "start"
  /\ mtool = "forks"
  /\ fpc = "returned"
  /\ mlist' = ret
  /\ IF ret = <<>>
     THEN \* if not forks: return
          /\ AfterMenu(Menu(None, <<>>, None, None, FALSE, <<>>))
          /\ UNCHANGED batchVars
     ELSE \E choice \in ForksChoices, sel \in MenuSelections,
             confirm \in AllConfirmations \cup Answers, at \in InterruptAt :
            LET m == delete_forks(ret, choice, sel, confirm, at)
            IN  /\ AfterMenu(m)
                /\ IF m.called THEN EnterMutator("delete_repos", m.selected)
                   ELSE UNCHANGED batchVars
  /\ UNCHANGED <<mtool, mupdated, selVars, fetchVars, filterVars, sessionVars>>

\* stars-git.py interactive_menu, choice 4, up to its call of remove_stars
UnstarMenu ==
  /\ mpc = "start"
  /\ mtool = "stars"
  /\ IF mlist = <<>>
     THEN \* if not repos: ... continue
          /\ AfterMenu(Menu(None, <<>>, None, None, FALSE, <<>>))
          /\ UNCHANGED batchVars
     ELSE \E subchoice \in Subchoices, sel \in MenuSelections, confirm \in Answers :
            LET m == unstar_menu(mlist, subchoice, sel, confirm)
            IN  /\ AfterMenu(m)
                /\ IF m.called THEN EnterMutator("remove_stars", m.selected)
                   ELSE UNCHANGED batchVars
  /\ UNCHANGED <<mtool, mlist, mupdated, selVars, fetchVars, filterVars,
                 sessionVars>>

\* stars-git.py interactive_menu, subchoice 2, after remove_stars returned:
\* the question whether to update the main list, and the update
UpdateMainList ==
  /\ mpc = "mutating"
  /\ mtool = "stars"
  /\ mchoice = "2"
  /\ bpc = "done"
  /\ \E answer \in Answers :
       IF lower(answer) = "s"
       THEN /\ mlist' = update_main_list(mlist, mselected)
            /\ mupdated' = TRUE
       ELSE UNCHANGED <<mlist, mupdated>>
  /\ mpc' = "done"
  /\ UNCHANGED <<mtool, mchoice, mselection, mconfirm, mselected, minterrupt,
                 selVars, batchVars, fetchVars, filterVars, sessionVars>>

MenuAtRest ==
  /\ mpc = "rest"
  /\ mtool = "none"
  /\ mlist = <<>>
  /\ mchoice = None
  /\ mselection = <<>>
  /\ mconfirm = None
  /\ mselected = <<>>
  /\ minterrupt = None
  /\ mupdated = FALSE

(***************************************************************************)
(* The specifications.  Each one starts its own part and leaves the other  *)
(* parts at rest.                                                          *)
(***************************************************************************)
SelectAtRest ==
  /\ spc = "rest"
  /\ stool = "none"
  /\ selection = <<>>
  /\ max_index = 0
  /\ result = <<>>
  /\ valid_indices = <<>>
  /\ warned = 0
  /\ raised = FALSE
  /\ escaped = FALSE
  /\ toMutate = <<>>

BatchAtRest ==
  /\ bpc = "rest"
  /\ btool = "none"
  /\ repos = <<>>
  /\ selected_indices = <<>>
  /\ done_items = 0
  /\ success_count = 0
  /\ error_count = 0
  /\ requests = <<>>
  /\ sleeps = 0
  /\ notices = 0
  /\ make_private = FALSE
  /\ is_private = [n \in 1..MaxItems |-> FALSE]

FetchAtRest ==
  /\ fpc = "rest"
  /\ ftool = "none"
  /\ nFull = 0
  /\ tail = <<>>
  /\ page = 1
  /\ acc = <<>>
  /\ pageRequests = <<>>
  /\ failedReq = FALSE
  /\ rechecks = 0
  /\ ret = <<>>
  /\ fetchOk = FALSE
  /\ repositories = NoRepositories
  /\ RateAtRest
  /\ language_filter = None
  /\ topic_filter = None
  /\ lookupFailed = {}

\* a selection text is typed against a displayed list of max_index entries
InitSelect ==
  /\ spc = "prompt"
  /\ stool = "none"
  /\ selection \in Texts
  /\ max_index \in (MaxIndex - 1)..MaxIndex
  /\ result = <<>>
  /\ valid_indices = <<>>
  /\ warned = 0
  /\ raised = FALSE
  /\ escaped = FALSE
  /\ toMutate = <<>>
  /\ BatchAtRest
  /\ FetchAtRest
  /\ FilterAtRest
  /\ SessionAtRest
  /\ MenuAtRest

NextSelect ==
  \/ ForksSelect
  \/ StarsSelect
  \/ ReposSelect

SpecSelect == InitSelect /\ [][NextSelect]_vars

\* the repositories a displayed list of n entries holds
Listed(n) == [i \in 1..n |-> i]

\* a mutator is entered with its list (_delete_repos possibly with a list that
\* names a fork twice, as parse_selection keeps repeated indices);
\* _process_selection with the displayed list and the index list it built
InitBatch ==
  /\ bpc = "loop"
  /\ btool \in {"delete_repos", "remove_stars", "batch_change_visibility",
                "process_selection"}
  /\ IF btool = "process_selection"
     THEN /\ repos = Listed(MaxItems - 1)
          /\ selected_indices \in UNION {[1..n -> 0..MaxItems] : n \in 0..MaxItems}
     ELSE /\ IF btool = "delete_repos"
             THEN repos \in UNION {[1..n -> 1..MaxItems] : n \in 0..MaxItems}
             ELSE repos \in {Listed(n) : n \in 0..MaxItems}
          /\ selected_indices = <<>>
  /\ done_items = 0
  /\ success_count = 0
  /\ error_count = 0
  /\ requests = <<>>
  /\ sleeps = 0
  /\ notices = 0
  /\ make_private \in (IF btool \in {"batch_change_visibility", "process_selection"}
                       THEN BOOLEAN ELSE {FALSE})
  /\ is_private \in (IF btool \in {"batch_change_visibility", "process_selection"}
                     THEN {[n \in 1..MaxItems |-> b] : b \in BOOLEAN}
                     ELSE {[n \in 1..MaxItems |-> FALSE]})
  /\ SelectAtRest
  /\ FetchAtRest
  /\ FilterAtRest
  /\ SessionValidated
  /\ MenuAtRest

NextBatch ==
  \/ DeleteReposItem
  \/ RemoveStarsItem
  \/ BatchChangeVisibilityItem
  \/ ProcessSelectionItem
  \/ ProcessSelectionSkip
  \/ BatchReturn

SpecBatch == InitBatch /\ [][NextBatch]_vars

\* what self.repositories may hold from an earlier fetch
Stale == [PUBLIC |-> <<Record(1, FALSE, FALSE)>>, PRIVATE |-> <<>>, FORK |-> <<>>]

\* a fetch is entered against an upstream
InitFetch ==
  /\ ftool \in {"forks", "stars", "repos"}
  /\ fpc = (IF ftool = "repos" THEN "start" ELSE IF ftool = "stars" THEN "rate"
            ELSE "request")
  /\ nFull \in 0..MaxFullPages
  /\ tail \in (IF ftool = "stars" THEN PlainTails(nFull) ELSE Tails(nFull))
  /\ page = 1
  /\ acc = <<>>
  /\ pageRequests = <<>>
  /\ failedReq = FALSE
  /\ rechecks = 0
  /\ ret = <<>>
  /\ fetchOk = FALSE
  /\ repositories \in (IF ftool = "repos" THEN {NoRepositories, Stale}
                       ELSE {NoRepositories})
  /\ RateAtRest
  /\ language_filter \in (IF ftool = "stars" THEN LanguageFilters ELSE {None})
  /\ topic_filter \in (IF ftool = "stars" THEN TopicFilters ELSE {None})
  /\ lookupFailed = {}
  /\ SelectAtRest
  /\ BatchAtRest
  /\ FilterAtRest
  /\ SessionAtRest
  /\ MenuAtRest

NextFetch ==
  \/ ForksFetchPage
  \/ StarsCheckRateLimit
  \/ StarsFetchPage
  \/ ReposFetchStart
  \/ ReposFetchPage

SpecFetch == InitFetch /\ [][NextFetch]_vars

\* a fetch of the starred repositories without filters is entered
InitRate ==
  /\ InitFetch
  /\ ftool = "stars"
  /\ language_filter = None
  /\ topic_filter = None

NextRate ==
  \/ StarsCheckRateLimit
  \/ StarsFetchPage

\* check_rate_limit runs in the one thread of the tool: its quota request
\* ends within API_TIMEOUT and its sleep is finite, so a call in progress
\* takes its next step
SpecFetchFair == InitRate /\ [][NextRate]_vars /\ WF_vars(StarsCheckRateLimit)

InitFilter ==
  /\ flpc = "called"
  /\ starred \in StarredLists
  /\ fchoice \in ChoiceInputs
  /\ flanguage \in (IF fchoice = <<"1">> THEN LanguageInputs ELSE {""})
  /\ ftyped \in (IF fchoice = <<"2">> THEN StarsInputs
                 ELSE IF fchoice = <<"3">> THEN DateInputs
                 ELSE {<<>>})
  /\ filtered = <<>>
  /\ SelectAtRest
  /\ BatchAtRest
  /\ FetchAtRest
  /\ SessionAtRest
  /\ MenuAtRest

NextFilter == FilterStarredRepos

SpecFilter == InitFilter /\ [][NextFilter]_vars

InitSession ==
  /\ apc = "start"
  /\ atool \in {"forks", "stars", "repos"}
  /\ stored \in StoredCredentials
  /\ username = None
  /\ token = None
  /\ headers = None
  /\ exit_status = Running
  /\ trace = <<>>
  /\ turns = 0
  /\ SelectAtRest
  /\ BatchAtRest
  /\ FetchAtRest
  /\ FilterAtRest
  /\ MenuAtRest

NextSession ==
  \/ ForksMain
  \/ StarsMain
  \/ ToolWork
  \/ ReposRun
  \/ ReposList
  \/ ReposManage
  \/ ReposChangeCredentials
  \/ ReposExit

SpecSession == InitSession /\ [][NextSession]_vars

\* the main list of interactive_menu after choice 1 loaded n repositories
Loaded(n) == [i \in 1..n |-> Record(i, FALSE, FALSE)]

\* forks.py: main() is about to fetch the forks from an upstream of one short
\* page; stars-git.py: choice 4 of the menu is taken with a main list
InitMenu ==
  /\ mpc = "start"
  /\ mtool \in {"forks", "stars"}
  /\ mlist \in (IF mtool = "stars" THEN {Loaded(n) : n \in 0..MaxItems} ELSE {<<>>})
  /\ mchoice = None
  /\ mselection = <<>>
  /\ mconfirm = None
  /\ mselected = <<>>
  /\ minterrupt = None
  /\ mupdated = FALSE
  /\ ftool = (IF mtool = "forks" THEN "forks" ELSE "none")
  /\ fpc = (IF mtool = "forks" THEN "request" ELSE "rest")
  /\ nFull = 0
  /\ tail \in (IF mtool = "forks" THEN Tails(0) ELSE {<<>>})
  /\ page = 1
  /\ acc = <<>>
  /\ pageRequests = <<>>
  /\ failedReq = FALSE
  /\ rechecks = 0
  /\ ret = <<>>
  /\ fetchOk = FALSE
  /\ repositories = NoRepositories
  /\ RateAtRest
  /\ language_filter = None
  /\ topic_filter = None
  /\ lookupFailed = {}
  /\ SelectAtRest
  /\ BatchAtRest
  /\ FilterAtRest
  /\ SessionValidated

NextMenu ==
  \/ ForksFetchPage
  \/ DeleteForks
  \/ DeleteReposItem
  \/ UnstarMenu
  \/ RemoveStarsItem
  \/ UpdateMainList
  \/ BatchReturn

SpecMenu == InitMenu /\ [][NextMenu]_vars

(***************************************************************************)
(* Properties of the batch mutators (SpecBatch).                           *)
(***************************************************************************)
\* the repositories a mutator has to send a request for, in order:
\* _process_selection sends one for each index of its list that is in range
Worklist ==
  IF btool = "process_selection"
  THEN LET inr == SelectSeq(selected_indices, LAMBDA i : InRange(i, Len(repos)))
       IN  [k \in 1..Len(inr) |-> repos[inr[k]]]
  ELSE repos

\* a request that failed: it raised, or it came back with a status the
\* mutator does not take for a success (a delete: any but 204; an unstar: any
\* but 204 and 200; a visibility patch: an error status, 400 and up)
ItemFailed(tool, o) ==
  \/ o.exc
  \/ tool = "delete_repos" /\ o.status # 204
  \/ tool = "remove_stars" /\ o.status \notin {204, 200}
  \/ tool \in {"batch_change_visibility", "process_selection"} /\ o.status >= 400

FailedRequests == {k \in DOMAIN requests : ItemFailed(btool, requests[k].outcome)}

\* C1: a batch mutator sends one request per item, in the order of its list,
\* whatever the earlier items ended in; it counts every request in exactly one
\* of the two counters, the failed ones in the failure counter; and it ends
\* only when it has gone through the whole list.
C1_BatchAttemptsEveryItemOnce ==
  /\ Len(requests) <= Len(Worklist)
  /\ \A k \in DOMAIN requests : requests[k].repo = Worklist[k]
  /\ success_count + error_count = Len(requests)
  /\ error_count = Cardinality(FailedRequests)
  /\ bpc = "done" => Len(requests) = Len(Worklist)

\* a run over three items whose second request raised and whose third succeeded
C1_Witness ==
  /\ bpc = "done"
  /\ btool = "delete_repos"
  /\ Len(requests) = 3
  /\ requests[2].outcome = Raised
  /\ requests[3].outcome = Response(204)
  /\ success_count = 2
  /\ error_count = 1

(***************************************************************************)
(* Properties of the selection step (SpecSelect).                          *)
(***************************************************************************)
StrictlyAscending(s) == \A i, j \in DOMAIN s : i < j => s[i] < s[j]

\* C2: the list of indices a selection is turned into is strictly ascending
\* (so it holds no index twice) and holds only values of 1..max_index, in each
\* of the three tools.
C2_IndicesAscendingUniqueInRange ==
  spc = "selected" =>
    /\ StrictlyAscending(valid_indices)
    /\ \A k \in DOMAIN valid_indices : InRange(valid_indices[k], max_index)

\* a token 'start-end' with start > end, rewritten as 'end-start'
SwapToken(part) ==
  IF range_ok(part) /\ int(split_dash(part)[1]) > int(split_dash(part)[2])
  THEN split_dash(part)[2] \o <<"-">> \o split_dash(part)[1]
  ELSE part

RECURSIVE JoinTokens(_)
JoinTokens(parts) ==
  IF parts = <<>> THEN <<>>
  ELSE IF Len(parts) = 1 THEN Head(parts)
  ELSE Head(parts) \o <<" ">> \o JoinTokens(Tail(parts))

\* the text with every reversed range put in order
RangesInOrder(sel) ==
  LET parts == split(sel)
  IN  JoinTokens([k \in DOMAIN parts |-> SwapToken(parts[k])])

\* the list a tool's parser gives for a text
ParserValue(tool, sel, n) ==
  CASE tool = "forks" -> forks_parse_selection(sel, n).value
    [] tool = "stars" -> stars_parse_selection(sel, n).value
    [] tool = "repos" -> repos_process_selection(sel, n).value

\* C8: a range typed with start > end selects what the same range typed in
\* order selects, in each of the three tools.
C8_ReversedRangeSelectsAsOrdered ==
  spc = "selected" =>
    valid_indices = ParserValue(stool, RangesInOrder(selection), max_index)

\* the selection grammar: a token is a number or two numbers joined by a dash
IsNumber(t) == Len(t) > 0 /\ \A i \in DOMAIN t : t[i] \in Digits

IsRangeToken(t) ==
  \E k \in DOMAIN t :
    /\ t[k] = "-"
    /\ IsNumber(SubSeq(t, 1, k - 1))
    /\ IsNumber(SubSeq(t, k + 1, Len(t)))

WellFormed(t) == IsNumber(t) \/ IsRangeToken(t)

HasMalformedToken(sel) == \E k \in DOMAIN split(sel) : ~WellFormed(split(sel)[k])

\* the indices a well-formed token can stand for
Denotes(t) ==
  IF IsNumber(t) THEN {int(t)}
  ELSE LET k == CHOOSE k \in DOMAIN t : t[k] = "-"
           a == int(SubSeq(t, 1, k - 1))
           b == int(SubSeq(t, k + 1, Len(t)))
       IN  (a..b) \cup (b..a)

\* C9: when the text holds a malformed token, no exception leaves the
\* selection step (in stars-git.py and repos.py the parser itself does not
\* raise), and every repository handed to the mutator was selected by a
\* well-formed token of the text: nothing is mutated for the malformed one.
C9_MalformedTokenHandledLocally ==
  (spc = "selected" /\ HasMalformedToken(selection)) =>
    /\ ~escaped
    /\ stool \in {"stars", "repos"} => ~raised
    /\ \A k \in DOMAIN toMutate :
         /\ InRange(toMutate[k], max_index)
         /\ \E j \in DOMAIN split(selection) :
              /\ WellFormed(split(selection)[j])
              /\ toMutate[k] \in Denotes(split(selection)[j])

\* forks.py: a text with a well-formed and a malformed token made the parser
\* raise, and the step ended with nothing handed to the mutator
C9_Witness ==
  /\ spc = "selected"
  /\ stool = "forks"
  /\ HasMalformedToken(selection)
  /\ \E j \in DOMAIN split(selection) : WellFormed(split(selection)[j])
  /\ raised
  /\ ~escaped
  /\ toMutate = <<>>

\* the places of result that hold an index outside 1..max_index
OutOfRange == {k \in DOMAIN result : ~InRange(result[k], max_index)}

\* C10: the out-of-range indices of a selection are dropped without an
\* exception, the in-range ones are kept, and the user is told how many were
\* dropped (warned is that number), in each of the three tools.
C10_OutOfRangeDroppedAndCounted ==
  spc = "selected" =>
    /\ OutOfRange # {} => (~raised /\ ~escaped)
    /\ Range(valid_indices) = {i \in Range(result) : InRange(i, max_index)}
    /\ warned = Cardinality(OutOfRange)

(***************************************************************************)
(* Properties of the paginated fetches (SpecFetch).                        *)
(***************************************************************************)
\* the records the fetch left with its caller: the list returned, or, in
\* repos.py, the lists of self.repositories
Returned ==
  IF ftool = "repos"
  THEN repositories["PUBLIC"] \o repositories["PRIVATE"] \o repositories["FORK"]
  ELSE ret

\* C3: a fetch one of whose page requests failed leaves no record of the
\* earlier pages with its caller.
C3_FailedFetchReturnsNoRecords ==
  (fpc = "returned" /\ failedReq) => Returned = <<>>

\* the page numbers 1, 2, .., n
FirstPages(n) == [i \in 1..n |-> i]

\* C4: a fetch none of whose requests failed asked for the pages
\* 1 .. nFull + 1 and for no other: it stopped at the first page of fewer
\* than 100 records.
C4_StopsAtFirstShortPage ==
  (fpc = "returned" /\ ~failedReq) => pageRequests = FirstPages(nFull + 1)

\* the records the upstream holds, in the order it serves them
Served ==
  [i \in 1..(nFull * PerPage + Len(tail)) |->
     IF i <= nFull * PerPage THEN FullRecord(i) ELSE tail[i - nFull * PerPage]]

FetchOver == fpc \in {"returned", "exited"}

\* C5: in stars-git.py and repos.py, a fetch none of whose requests fails
\* goes on until it returns, within nFull + 2 page requests, and has then
\* accumulated the records served, each once and in the order served, when no
\* filter is given.
C5_FetchAccumulatesAllServed ==
  (ftool \in {"stars", "repos"} /\ ~failedReq
     /\ language_filter = None /\ topic_filter = None) =>
    /\ Len(pageRequests) <= nFull + 2
    /\ FetchOver \/ ENABLED (StarsCheckRateLimit \/ StarsFetchPage
                               \/ ReposFetchStart \/ ReposFetchPage)
    /\ fpc = "returned" => acc = Served
    /\ (fpc = "returned" /\ ftool = "stars") => ret = Served

\* stars-git.py returned two full pages and a short one
C5_Witness ==
  /\ fpc = "returned"
  /\ ~failedReq
  /\ ftool = "stars"
  /\ language_filter = None
  /\ topic_filter = None
  /\ nFull = 2
  /\ Len(tail) = 1
  /\ Len(ret) = 2 * PerPage + 1

Categories == {"PUBLIC", "PRIVATE", "FORK"}

\* the places where record r stands in the lists of self.repositories
PlacesOf(r) ==
  {<<c, j>> \in Categories \X (1..Len(acc)) :
     j <= Len(repositories[c]) /\ repositories[c][j] = r}

ReposFetched == ftool = "repos" /\ fpc = "returned" /\ fetchOk

\* C6: after a successful fetch_repositories every record fetched stands at
\* exactly one place of the three lists, and the lengths of the three lists
\* add up to the number of records fetched.
C6_ClassificationIsPartition ==
  ReposFetched =>
    /\ \A k \in DOMAIN acc : Cardinality(PlacesOf(acc[k])) = 1
    /\ Len(repositories["PUBLIC"]) + Len(repositories["PRIVATE"])
         + Len(repositories["FORK"]) = Len(acc)

\* a fetch of more than a page that filled all three lists
C6_Witness ==
  /\ ReposFetched
  /\ Len(acc) > PerPage
  /\ \A c \in Categories : repositories[c] # <<>>

\* C7: after a successful fetch_repositories a record with fork = true is in
\* the Fork list and in no other, whatever its private flag; a record that is
\* no fork is in the Private list alone when private = true, and in the
\* Public list alone otherwise.
C7_ForkTakesPrecedence ==
  ReposFetched =>
    \A k \in DOMAIN acc :
      LET r == acc[k]
          c == IF r.fork THEN "FORK" ELSE IF r.private THEN "PRIVATE" ELSE "PUBLIC"
      IN  /\ r \in Range(repositories[c])
          /\ \A d \in Categories \ {c} : r \notin Range(repositories[d])

\* the short page held a private fork, which went to the Fork list
C7_Witness ==
  /\ ReposFetched
  /\ \E k \in DOMAIN tail :
       /\ tail[k].fork
       /\ tail[k].private
       /\ tail[k] \in Range(repositories["FORK"])

\* the place of record r among the records served
PlaceServed(r) == CHOOSE k \in DOMAIN Served : Served[k] = r

\* C22: within each category the records stand in the order they were
\* fetched, and the number shown before a record of a category list is the
\* index that selects that same record when a selection is applied.
C22_CategoryKeepsFetchOrder ==
  ReposFetched =>
    \A c \in Categories :
      LET l == repositories[c]
      IN  /\ \A j \in 1..(Len(l) - 1) : PlaceServed(l[j]) < PlaceServed(l[j + 1])
          /\ \A i \in 0..(Len(l) - 1) :
                selected_repo(l, shown_number(i)) = py_item(l, i)

\* the Fork list holds the first record of the first page and, after it, a
\* record of the short page, with records of other categories in between
C22_Witness ==
  /\ ReposFetched
  /\ nFull = 1
  /\ Len(repositories["FORK"]) >= 2
  /\ \E j \in 1..(Len(repositories["FORK"]) - 1) :
       /\ repositories["FORK"][j].id <= PerPage
       /\ repositories["FORK"][j + 1].id > PerPage
  /\ repositories["PUBLIC"] # <<>>
  /\ repositories["PRIVATE"] # <<>>

(***************************************************************************)
(* More properties of the selection step (SpecSelect).                     *)
(***************************************************************************)
\* the text is empty or holds blanks only
BlankText(t) == \A i \in DOMAIN t : t[i] = " "

\* C11: an empty or whitespace-only selection text gives an empty selection;
\* nothing is handed to the mutator and no exception is raised, in each tool.
C11_BlankSelectionSelectsNothing ==
  (spc = "selected" /\ BlankText(selection)) =>
    /\ valid_indices = <<>>
    /\ toMutate = <<>>
    /\ ~raised
    /\ ~escaped

\* stars-git.py was given two blanks and selected nothing
C11_Witness ==
  /\ spc = "selected"
  /\ stool = "stars"
  /\ selection = <<" ", " ">>
  /\ max_index >= 1
  /\ toMutate = <<>>

(***************************************************************************)
(* More properties of the batch mutators (SpecBatch).                      *)
(***************************************************************************)
\* how many requests were sent for repository r
RequestsFor(r) == Cardinality({j \in DOMAIN requests : requests[j].repo = r})

\* how many times the list to work on names repository r
TimesListed(r) == Cardinality({k \in DOMAIN Worklist : Worklist[k] = r})

\* C12: a failed mutation is not retried: a repository receives no more
\* requests than the list names it (one per item), whether its request
\* succeeded, came back with a failure status or raised; and a request once
\* sent is followed by the request for the next item, if any.
C12_NoItemIsRetried ==
  /\ \A j \in DOMAIN requests : RequestsFor(requests[j].repo) <= TimesListed(requests[j].repo)
  /\ \A j \in DOMAIN requests :
       (ItemFailed(btool, requests[j].outcome) /\ j < Len(requests)) =>
         requests[j + 1].repo = Worklist[j + 1]

\* remove_stars went on after an exception and a failure status
C12_Witness ==
  /\ bpc = "done"
  /\ btool = "remove_stars"
  /\ Len(requests) = 3
  /\ requests[1].outcome = Raised
  /\ requests[2].outcome = Response(404)
  /\ \A r \in Range(repos) : RequestsFor(r) = 1

\* the one status the operation of a mutator answers with when it succeeds
OperationStatus(tool) ==
  IF tool \in {"delete_repos", "remove_stars"} THEN 204 ELSE 200

\* the requests that came back with status st (and did not raise)
AnsweredWith(st) ==
  {j \in DOMAIN requests : ~requests[j].outcome.exc /\ requests[j].outcome.status = st}

\* C13 as stated: the items counted as successes are exactly those whose
\* request came back with the operation's status, 204 for a delete and an
\* unstar, 200 for a visibility patch; all the others are counted as failures.
C13_SuccessIffOperationStatus ==
  /\ success_count = Cardinality(AnsweredWith(OperationStatus(btool)))
  /\ error_count = Len(requests) - Cardinality(AnsweredWith(OperationStatus(btool)))

\* C13 as amended: the items counted as successes are exactly those whose
\* request came back with 204 for a delete, with 204 or 200 for an unstar,
\* and with any status below 400 for a visibility patch; every other status
\* and every exception is counted as a failure.
C13_SuccessIffAcceptedStatus ==
  LET accepted == {j \in DOMAIN requests :
                     LET o == requests[j].outcome
                     IN  /\ ~o.exc
                         /\ \/ btool = "delete_repos" /\ o.status = 204
                            \/ btool = "remove_stars" /\ o.status \in {204, 200}
                            \/ /\ btool \in {"batch_change_visibility", "process_selection"}
                               /\ o.status < 400}
  IN  /\ success_count = Cardinality(accepted)
      /\ error_count = Len(requests) - Cardinality(accepted)

\* an unstar answered with 200 and a visibility patch answered with 204 were
\* counted as successes
C13_Witness ==
  /\ bpc = "done"
  /\ Len(requests) = 2
  /\ success_count = 2
  /\ \/ btool = "remove_stars" /\ AnsweredWith(200) = {1, 2}
     \/ btool = "batch_change_visibility" /\ AnsweredWith(204) = {1, 2}

\* the pacing sleeps due once k of n items are done, when the last item is
\* followed by none
SleepsBetween(k, n) == IF k < n THEN k ELSE IF n = 0 THEN 0 ELSE n - 1

\* C14 as stated: the pacing sleep follows each item but the last: after k of
\* the n items there were min(k, n - 1) sleeps, n - 1 at the end, in each
\* mutator.
C14_SleepsBetweenItemsOnly ==
  sleeps = SleepsBetween(Len(requests), Len(Worklist))

\* C14 as amended: _delete_repos sleeps after each item but the last (n - 1
\* sleeps for n >= 1); remove_stars, _batch_change_visibility and
\* _process_selection sleep after every item, the last one included (n sleeps).
C14_SleepsByMutator ==
  /\ btool = "delete_repos" => sleeps = SleepsBetween(Len(requests), Len(Worklist))
  /\ btool # "delete_repos" => sleeps = Len(requests)
  /\ bpc = "done" =>
       sleeps = (IF btool = "delete_repos" /\ Len(Worklist) >= 1
                 THEN Len(Worklist) - 1 ELSE Len(Worklist))

\* remove_stars slept after the last of its two items too
C14_Witness ==
  /\ bpc = "done"
  /\ btool = "remove_stars"
  /\ Len(repos) = 2
  /\ Len(requests) = 2
  /\ sleeps = 2

(***************************************************************************)
(* Properties of the quota check of stars-git.py (SpecFetch).              *)
(***************************************************************************)
\* the k-th quota request of the latest call read a quota that calls for a wait
CallsForWait(k) ==
  /\ reads[k].ok
  /\ reads[k].remaining < 5
  /\ reads[k].reset_time - reads[k].current_time + 5 > 0

\* the latest call of check_rate_limit has returned
RateReturned == reads # <<>> /\ rechecks = 0

\* C15: a quota read with remaining < 5 and resetEpoch - now + 5 > 0 is
\* followed by a sleep of exactly resetEpoch - now + 5 seconds and by another
\* quota request before the call returns; a quota read from upstream is
\* returned only when remaining >= 5 or that wait is not positive.
C15_LowQuotaWaitsThenReadsAgain ==
  /\ \A k \in DOMAIN reads :
       CallsForWait(k) =>
         /\ k \in DOMAIN waits
         /\ waits[k] = reads[k].reset_time - reads[k].current_time + 5
         /\ k < Len(reads) => reads[k + 1].current_time >= reads[k].current_time + waits[k]
         /\ k = Len(reads) => ~RateReturned
  /\ \A k \in DOMAIN reads : (~CallsForWait(k) /\ reads[k].ok) => k = Len(reads)
  /\ (RateReturned /\ reads[Len(reads)].ok) =>
       /\ rate_ret = <<reads[Len(reads)].remaining, reads[Len(reads)].reset_time>>
       /\ reads[Len(reads)].remaining >= 5
            \/ reads[Len(reads)].reset_time - reads[Len(reads)].current_time + 5 <= 0

\* a call read a low quota one second short of its margin, slept that second,
\* read a quota of 5 and returned it
C15_Witness ==
  /\ ftool = "stars"
  /\ RateReturned
  /\ Len(reads) = 2
  /\ reads[1].remaining = 4
  /\ waits = <<1>>
  /\ reads[2].remaining = 5
  /\ rate_ret = <<5, reads[2].reset_time>>

\* C16: when the quota request fails (transport error, HTTP error status,
\* malformed body), check_rate_limit returns (1000, 0) without sleeping for
\* that request and without raising, and fetch_starred_repos goes on to its
\* page request.
C16_FailedQuotaCheckReturnsDefault ==
  (reads # <<>> /\ ~reads[Len(reads)].ok) =>
    /\ RateReturned
    /\ rate_ret = <<1000, 0>>
    /\ Len(waits) = Len(reads) - 1
    /\ now = reads[Len(reads)].current_time
         \/ events[Len(events)] = "page"
    /\ \/ fpc = "request" /\ ENABLED StarsFetchPage
       \/ /\ events[Len(events)] = "page"
          /\ Len(events) >= 2
          /\ events[Len(events) - 1] = "check_rate_limit"

\* the quota request for the second page failed and the page was asked for
C16_Witness ==
  /\ ftool = "stars"
  /\ reads # <<>>
  /\ reads[Len(reads)].kind = "malformed_body"
  /\ rate_ret = <<1000, 0>>
  /\ pageRequests = <<1, 2>>
  /\ events = <<"check_rate_limit", "page", "check_rate_limit", "page">>

\* C17: every page request of a paginated fetch comes right after a call of
\* the quota check, one call per page request, in each tool.
C17_QuotaCheckBeforeEachPage ==
  \A k \in DOMAIN events :
    events[k] = "page" => (k > 1 /\ events[k - 1] = "check_rate_limit")

(***************************************************************************)
(* Properties of the filters of the starred fetch (SpecFetch).             *)
(***************************************************************************)
\* C18: with a language filter, every record kept by the starred fetch has a
\* language equal to the filter but for case; a record without a language is
\* not kept.
C18_LanguageFilterKeepsMatchesOnly ==
  (ftool = "stars" /\ language_filter # None) =>
    \A k \in DOMAIN acc :
      /\ language_of(acc[k].id) # None
      /\ lower(language_of(acc[k].id)) = lower(language_filter)

\* the record has the topic asked for
HasTopic(r) == \E t \in topics_of(r.id) : lower(t) = lower(topic_filter)

\* C19: with a topic filter, a record whose topics lookup failed is left out
\* of the result, and it alone: the records after it on the page and the
\* following pages are still fetched and examined, so that, absent a language
\* filter, the result holds exactly the records served that have the topic
\* and whose lookup did not fail.
C19_FailedLookupDropsOneRecord ==
  (ftool = "stars" /\ topic_filter # None) =>
    /\ \A k \in DOMAIN acc : acc[k].id \notin lookupFailed
    /\ (fpc = "returned" /\ ~failedReq) =>
         /\ pageRequests = FirstPages(nFull + 1)
         /\ language_filter = None =>
              acc = SelectSeq(Served, LAMBDA r : HasTopic(r) /\ r.id \notin lookupFailed)

\* the lookup of record 2 failed; record 4 of the same page and record 102 of
\* the next page were kept
C19_Witness ==
  /\ ftool = "stars"
  /\ topic_filter = "cli"
  /\ language_filter = None
  /\ fpc = "returned"
  /\ ~failedReq
  /\ lookupFailed = {2}
  /\ \E i, j \in DOMAIN ret : ret[i].id = 4 /\ ret[j].id = 102
  /\ \A k \in DOMAIN ret : ret[k].id # 2

(***************************************************************************)
(* Properties of filter_starred_repos (SpecFilter).                        *)
(***************************************************************************)
NonZero == Digits \ {"0"}

\* the number written at the places a..b of a text of digits
NumberAt(s, a, b) == int(SubSeq(s, a, b))

\* a date written YYYY-MM-DD: ten characters, two digits for the month and
\* for the day, and a day of the calendar
IsYYYYMMDD(s) ==
  /\ Len(s) = 10
  /\ s[5] = "-" /\ s[8] = "-"
  /\ \A i \in {1, 2, 3, 4, 6, 7, 9, 10} : s[i] \in Digits
  /\ NumberAt(s, 1, 4) >= 1
  /\ NumberAt(s, 6, 7) \in 1..12
  /\ NumberAt(s, 9, 10) \in 1..days_in_month(NumberAt(s, 1, 4), NumberAt(s, 6, 7))

\* the ways to write a month and a day that the date filter takes
MonthTexts ==
  {<<c>> : c \in NonZero} \cup {<<"0", c>> : c \in NonZero}
    \cup {<<"1", "0">>, <<"1", "1">>, <<"1", "2">>}

DayTexts ==
  {<<c>> : c \in NonZero} \cup {<<a, c>> : a \in {"0", " "}, c \in NonZero}
    \cup {<<a, c>> : a \in {"1", "2"}, c \in Digits}
    \cup {<<"3", "0">>, <<"3", "1">>}

DigitsOf(t) == int(SelectSeq(t, LAMBDA c : c \in Digits))

\* the dates the text s can be read as: a year of four digits, a month and a
\* day written in one of the ways above, joined by dashes, nothing else
ReadingsOf(s) ==
  {<<NumberAt(s, 1, 4), DigitsOf(mt), DigitsOf(dt)>> :
     <<mt, dt>> \in {md \in MonthTexts \X DayTexts :
        /\ Len(s) = 6 + Len(md[1]) + Len(md[2])
        /\ \A i \in 1..4 : s[i] \in Digits
        /\ s = SubSeq(s, 1, 4) \o <<"-">> \o md[1] \o <<"-">> \o md[2]
        /\ NumberAt(s, 1, 4) >= 1
        /\ DigitsOf(md[2]) <= days_in_month(NumberAt(s, 1, 4), DigitsOf(md[1]))}}

\* the date of a record: the first ten characters of its updated_at
UpdatedOn(r) ==
  LET u == updated_at_of(r.id)
  IN  <<NumberAt(u, 1, 4), NumberAt(u, 6, 7), NumberAt(u, 9, 10)>>

\* the date a is the date b or a later one
NotBefore(a, b) ==
  \/ a[1] > b[1]
  \/ a[1] = b[1] /\ a[2] > b[2]
  \/ a[1] = b[1] /\ a[2] = b[2] /\ a[3] >= b[3]

\* the date filter was chosen and the call is over
DateFilterDone == flpc \in {"returned", "raised"} /\ fchoice = <<"3">>

\* C20 as stated: the date filter returns the whole list, in order and without
\* raising, for every input that is not a date written YYYY-MM-DD, and for a
\* date written YYYY-MM-DD it keeps exactly the records updated on or after it.
C20_DateFilterByYYYYMMDD ==
  DateFilterDone =>
    /\ flpc = "returned"
    /\ IF IsYYYYMMDD(ftyped)
       THEN LET t == <<NumberAt(ftyped, 1, 4), NumberAt(ftyped, 6, 7),
                       NumberAt(ftyped, 9, 10)>>
            IN  filtered = SelectSeq(starred, LAMBDA r : NotBefore(UpdatedOn(r), t))
       ELSE filtered = starred

\* C20, amended: the date filter returns the whole list, in order and without
\* raising, for every input that cannot be read as a year of four digits, a
\* month and a day of one or two digits joined by dashes (2024-1-5 can, and so
\* can a day with a blank for its tens); for an input that can, it keeps
\* exactly the records updated on or after that date, in order.
C20_DateFilterByParsedDate ==
  DateFilterDone =>
    /\ flpc = "returned"
    /\ IF ReadingsOf(ftyped) = {}
       THEN filtered = starred
       ELSE \A t \in ReadingsOf(ftyped) :
              filtered = SelectSeq(starred, LAMBDA r : NotBefore(UpdatedOn(r), t))

\* the date typed was 2024-1-5: of the three records given, those of 4 January
\* 2024 and of 31 December 2023 were left out and that of 5 January was kept
C20_Witness ==
  /\ flpc = "returned"
  /\ fchoice = <<"3">>
  /\ ftyped = <<"2", "0", "2", "4", "-", "1", "-", "5">>
  /\ starred = <<Record(1, FALSE, FALSE), Record(2, FALSE, FALSE),
                 Record(3, FALSE, FALSE)>>
  /\ filtered = <<Record(2, FALSE, FALSE)>>

(***************************************************************************)
(* Properties of the run of a tool (SpecSession).                          *)
(***************************************************************************)
\* the k-th entry of the log is a profile request whose login was not the
\* user name expected
Mismatch(k) == trace[k].ev = "profile" /\ trace[k].outcome = "mismatch"

\* C21: when the login of the profile differs from the user name expected,
\* the run ends with a non-zero exit status: the mismatch is the last entry
\* of the log of the run (no prompt, fetch or mutation comes after it) and
\* the tool has exited with a status other than 0.  For the three tools.
C21_MismatchEndsTheRun ==
  \A k \in DOMAIN trace :
    Mismatch(k) =>
      /\ k = Len(trace)
      /\ apc = "exited"
      /\ exit_status \notin {Running, 0}

\* the credentials of the latest validation that passed up to entry k
LastValidated(k) ==
  LET passed == {j \in 1..k : trace[j].ev = "profile" /\ trace[j].outcome = "ok"}
  IN  IF passed = {} THEN NoCredentials
      ELSE LET j == CHOOSE i \in passed : \A h \in passed : h <= i
           IN  Credentials(trace[j].username, trace[j].token)

\* C26: in repos.py every fetch and every visibility mutation is issued with
\* the user name that was validated together with the token of the headers,
\* and at the main menu user name, token and headers are those of the latest
\* validation that passed (a failed change of credentials leaves them alone).
C26_UsernameValidatedWithHeaders ==
  atool = "repos" =>
    /\ \A k \in DOMAIN trace :
         trace[k].ev \in {"fetch", "mutation"} =>
           Credentials(trace[k].username, trace[k].token) = LastValidated(k)
    /\ apc = "menu" =>
         /\ Credentials(username, token) = LastValidated(Len(trace))
         /\ headers = token

(***************************************************************************)
(* Properties of the mutation requests (SpecBatch).                        *)
(***************************************************************************)
\* the mutators of repos.py, run to make repositories private
MakesPrivate ==
  btool \in {"batch_change_visibility", "process_selection"} /\ make_private

\* the k-th request got through and was answered as the upstream answers a
\* patch of that URL: 200 for a repository it holds, 404 for any other URL
AnsweredInKind(k) ==
  /\ ~requests[k].outcome.exc
  /\ requests[k].outcome.status = (IF named_by(requests[k].url) = {} THEN 404 ELSE 200)

\* the k-th request was counted as a success
CountedSuccess(k) == ~ItemFailed(btool, requests[k].outcome)

\* C23: making private is idempotent: when the upstream is reached and
\* answers in kind, a request for a record whose repository is already
\* private is counted as a success, and two requests in a row for the same
\* record are both counted as successes and leave its repository private.
C23_MakePrivateIsIdempotent ==
  MakesPrivate =>
    /\ \A k \in DOMAIN requests :
         (requests[k].was_private /\ AnsweredInKind(k)) => CountedSuccess(k)
    /\ \A k \in 1..(Len(requests) - 1) :
         (/\ k + 1 = Len(requests)
          /\ requests[k].repo = requests[k + 1].repo
          /\ AnsweredInKind(k) /\ AnsweredInKind(k + 1)) =>
            /\ CountedSuccess(k)
            /\ CountedSuccess(k + 1)
            /\ is_private[requests[k].repo]

\* the path each mutator sends its requests to
MutationPath ==
  IF btool = "remove_stars" THEN "/user/starred" ELSE "/repos"

\* C25: every mutation request goes to the path of its operation followed by
\* the full name of the record it is sent for, its owner included, also for a
\* record that another account or an organisation owns.
C25_RequestNamesTheRecord ==
  \A k \in DOMAIN requests :
    /\ requests[k].url.path = MutationPath
    /\ lower(requests[k].url.owner) = lower(owner_of(requests[k].repo))
    /\ requests[k].url.name = name_of(requests[k].repo)

(***************************************************************************)
(* The three parsers against each other (SpecSelect).                      *)
(***************************************************************************)
\* whether a tool's parser refuses a text as a whole
ParserRejects(tool, sel, n) ==
  CASE tool = "forks" -> forks_parse_selection(sel, n).rejected
    [] tool = "stars" -> stars_parse_selection(sel, n).rejected
    [] tool = "repos" -> repos_process_selection(sel, n).rejected

\* C24: for every selection text and every list length the parsers of the
\* three tools select the same set of indices and agree on whether the text
\* is rejected: what the tool that ran selected is what each of the other
\* two selects for the same text and length.
C24_ParsersAgree ==
  spc = "selected" =>
    \A tool \in {"forks", "stars", "repos"} :
      /\ Range(valid_indices) = Range(ParserValue(tool, selection, max_index))
      /\ ParserRejects(stool, selection, max_index)
           = ParserRejects(tool, selection, max_index)

(***************************************************************************)
(* Properties of the menus of deletion (SpecMenu).                         *)
(***************************************************************************)
\* the repositories whose unstar request succeeded
Unstarred ==
  {requests[j].repo : j \in {k \in DOMAIN requests :
                               remove_stars_tally(requests[k].outcome) = Succeeded}}

\* the step that updates the main list after a selective unstar
UpdatesMainList == mtool = "stars" /\ mpc = "mutating" /\ mupdated' /\ ~mupdated

\* C27: after a selective unstar followed by the update of the main list,
\* the main list has lost exactly the repositories whose unstar succeeded:
\* a repository whose unstar request failed stays in the main list, and the
\* repositories that were not selected stay in their original order.
C27_MainListLosesTheUnstarred ==
  [][UpdatesMainList =>
       mlist' = SelectSeq(mlist, LAMBDA repo : repo.id \notin Unstarred)]_vars

\* the forks tool has sent a delete request
DeleteSent == mtool = "forks" /\ requests # <<>>

\* 'delete all' was chosen and the exact text ELIMINAR typed
ConfirmedAll == strip(mchoice) = "1" /\ mconfirm = "ELIMINAR"

\* 'delete selected' was chosen, a selection was displayed and one of the
\* answers typed
ConfirmedSelected(answers) ==
  /\ strip(mchoice) = "2"
  /\ mselected # <<>>
  /\ mconfirm \in answers

\* the repositories of the delete requests are those of the list confirmed
DeletesTheConfirmed ==
  {requests[j].repo : j \in DOMAIN requests} \subseteq
    {mselected[k].id : k \in DOMAIN mselected}

\* C28 as stated: delete requests are sent only after ELIMINAR was typed for
\* 'delete all' or 's' was typed for the displayed selection; every other
\* answer, choice or interrupt results in no delete request.
C28_DeleteOnlyAfterS ==
  DeleteSent => /\ minterrupt = None
                /\ ConfirmedAll \/ ConfirmedSelected({"s"})
                /\ DeletesTheConfirmed

\* C28: delete requests are sent only after ELIMINAR was typed for 'delete
\* all' or an answer that reads 's' in lower case ('s' or 'S') was typed
\* for the displayed selection; every other answer, choice 3, an invalid
\* choice or an interrupt at a prompt results in no delete request.
C28_DeleteOnlyAfterConfirmation ==
  DeleteSent => /\ minterrupt = None
                /\ ConfirmedAll \/ ConfirmedSelected({"s", "S"})
                /\ DeletesTheConfirmed

\* a selection was confirmed with a capital S and its fork was deleted
C28_Witness ==
  /\ DeleteSent
  /\ ConfirmedSelected({"S"})
  /\ bpc = "done"

\* the upstream's record of repository r, as fetch_forks was served it
ServedAs(r) == {k \in DOMAIN tail : tail[k].id = r}

\* C29: every repository that receives a delete request is a record with
\* fork = true of the list the fetch_forks of this run returned; a
\* repository that is not a fork never receives a delete request.
C29_OnlyFetchedForksDeleted ==
  mtool = "forks" =>
    \A j \in DOMAIN requests :
      /\ \E k \in DOMAIN ret : ret[k].id = requests[j].repo /\ ret[k].fork
      /\ \A k \in ServedAs(requests[j].repo) : tail[k].fork

\* the fetch was served a fork and a repository that is no fork, all the
\* forks were deleted, and the other repository received no request
C29_Witness ==
  /\ mtool = "forks"
  /\ bpc = "done"
  /\ ConfirmedAll
  /\ \E k \in DOMAIN tail : ~tail[k].fork
  /\ \E k \in DOMAIN tail : tail[k].fork
  /\ Len(requests) = Len(ret)

(***************************************************************************)
(* Termination of check_rate_limit (SpecFetchFair).                        *)
(***************************************************************************)
\* a call of check_rate_limit has slept and is about to read the quota again
Rechecking == ftool = "stars" /\ fpc = "rate" /\ rechecks > 0

\* read k of the latest call lets the call return: the request failed, or
\* it reports remaining >= 5, or a reset time at least 5 seconds back
LetsReturn(k) ==
  \/ ~reads[k].ok
  \/ reads[k].remaining >= 5
  \/ reads[k].reset_time <= reads[k].current_time - 5

\* the reads of the latest call that were followed by a sleep
SleptOn == {k \in DOMAIN reads : k < Len(reads) \/ Rechecking}

CallReturnsWhenItMay ==
  ftool = "stars" =>
    /\ \A k \in DOMAIN reads : LetsReturn(k) <=> k \notin SleptOn
    /\ Len(waits) = Cardinality(SleptOn)
    /\ Rechecking => now = reads[Len(reads)].reset_time + 5
    /\ \A k \in DOMAIN reads :
         k < Len(reads) =>
           /\ reads[k + 1].current_time = reads[k].reset_time + 5
           /\ reads[k + 1].ok /\ reads[k + 1].reset_time <= reads[k].reset_time
                => k + 1 \notin SleptOn
    /\ \A j, k \in SleptOn : j < k => reads[j].reset_time < reads[k].reset_time

\* C30: check_rate_limit terminates.  A read that reports remaining >= 5,
\* or a reset time at least 5 seconds back, or that fails, makes the call
\* return; after a sleep the clock is at resetEpoch + 5 and the next read
\* makes the call return unless it reports remaining < 5 with a later reset
\* time, so the sleeps of a call are in reset windows that differ; and with
\* an upstream that reports a low quota for MaxRechecks windows at most, a
\* call that was entered returns.
C30_CheckRateLimitTerminates ==
  /\ []CallReturnsWhenItMay
  /\ (ftool = "stars" /\ fpc = "rate") ~> (fpc # "rate")

\* a call has slept in two reset windows and returned on a read that
\* reports a quota still below 5 with the reset time it slept for
C30_Witness ==
  /\ ftool = "stars"
  /\ fpc = "request"
  /\ Len(waits) = 2
  /\ Len(reads) = 3
  /\ reads[3].ok
  /\ reads[3].remaining < 5
  /\ reads[3].reset_time = reads[2].reset_time
=============================================================================
